---- MODULE Spec2Model ----
(***************************************************************************)
(* The guided review flow of food-table: the step flow controller, the     *)
(* dish editor and the submission of static/js/review_modal.js, and the    *)
(* draft manager with its autosave timer of static/js/review_draft.js.    *)
(*                                                                         *)
(* The browser runs one handler at a time. A handler that awaits a fetch   *)
(* is split where it awaits: the part before the await sends a request     *)
(* (an element of net, carrying the handler's continuation in its field    *)
(* k), and the arrival of the response runs the rest. Any other handler    *)
(* may run in between. The server's handling of a request and the arrival  *)
(* of its response at the client are one step.                             *)
(*                                                                         *)
(* The Django views behind /api/reviews/... are not part of the sources    *)
(* at hand; the DraftStore and the submission endpoint are modelled from   *)
(* section 4.2 and section 6 of the specification.                         *)
(***************************************************************************)
EXTENDS Integers, Sequences, FiniteSets, Bags, TLC

(***************************************************************************)
(* Bounds of the model.                                                    *)
(***************************************************************************)
\* requests that may be awaiting their response at the same time
MaxInFlight == 2
\* dish cards created per session (dishCounter is capped at this value)
MaxDishCounter == 1
\* draft identifiers the DraftStore may mint
MaxDraftId == 2
\* requests the page sends in one run
MaxSends == 4
\* requests the page sends in one run of the discard scenario (SpecDiscard)
MaxDiscardSends == 6
\* requests the page sends in one run of the autosave scenario (SpecLive)
MaxLiveSends == 3
\* dish cards created per session in the dish editor scenario (SpecEditor)
MaxEditorDishes == 2
\* requests the page sends in one run of the dish editor scenario
MaxEditorSends == 3
\* requests the page sends in one run of the resume scenario (SpecCycle)
MaxCycleSends == 5
\* requests the page of review_dish_link.js sends in one run
MaxDishLinkSends == 2
\* requests the page sends in one run of the submission scenario (SpecSubmit)
MaxSubmitSends == 6
MaxPayloadSends == 4
MaxOrderDishes == 3
MaxOrderSends == 1
MaxLinkSends == 1
MaxBasicSends == 2
MaxConfirmSends == 4
MaxSearchSends == 3

(***************************************************************************)
(* Step configuration: review_modal.js REVIEW_STEPS. The code indexes the  *)
(* steps from 0; StepAt(i) is REVIEW_STEPS[i] of the code.                 *)
(***************************************************************************)
REVIEW_STEPS ==
    << [id |-> "basic-info", required |-> TRUE],
       [id |-> "location",   required |-> FALSE],
       [id |-> "rating",     required |-> TRUE],
       [id |-> "dishes",     required |-> TRUE],
       [id |-> "confirm",    required |-> TRUE] >>

LastIndex == Len(REVIEW_STEPS) - 1

\* REVIEW_STEPS[i] is an object (not undefined)
InRange(i) == i >= 0 /\ i <= LastIndex

StepAt(i) == REVIEW_STEPS[i + 1]

\* REVIEW_STEPS.findIndex(s => s.id === id), with the -1 of "not found"
FindIndex(id) ==
    IF \E i \in 0..LastIndex : StepAt(i).id = id
    THEN CHOOSE i \in 0..LastIndex : StepAt(i).id = id
    ELSE -1

\* this.draftId = null
NullId == 0

(***************************************************************************)
(* Values typed by the user, and String.prototype.trim on them.            *)
(***************************************************************************)
NameInputs == {"", "Le Jardin"}
DishNameInputs == {"", "Tarte"}
\* what the user enters into a card in the dish editor scenario
EditorDishNames == {"", " ", "Tarte"}
DishNotesInputs == {"", "crisp"}
DishRatingInputs == {"50", "80"}
\* the encyclopedia entry the user picks in the search dialog
TartEntry == [id |-> "7", name |-> "Tart", slug |-> "tart"]
FlanEntry == [id |-> "9", name |-> "Flan", slug |-> ""]
\* the entries a search of the encyclopedia lists
CatalogEntries == {TartEntry, FlanEntry}
\* what the user types into the search field of the encyclopedia search
SearchInputs == {"t", "ta", "fl"}
\* query.length < 2, for the queries of this model
ShortQuery(query) == query \in {"", "t"}
\* the answer of /api/encyclopedia/search/ to a query
CatalogSearch(query) ==
    CASE query = "ta" -> << TartEntry >>
      [] query = "fl" -> << FlanEntry >>
      [] OTHER -> << >>
\* what the user types into the name and the description of a new entry
EntryNames == {"", "Tarte"}
EntryDescriptions == {" ", "A tart"}
\* the id /api/encyclopedia/create/ gives the entry it creates
CreatedId == "11"
\* the files the user picks: with an allowed type and size, or not
ImageFiles == {[ok |-> TRUE, url |-> "data:image/png;base64,AAAA"],
               [ok |-> FALSE, url |-> "data:text/plain;base64,AAAA"]}
\* the value openModal writes into the date input, new Date().toISOString().split('T')[0]
Today == "today"
\* the dates the user picks, named after the day in UTC the page is used on
DateInputs == {"", "yesterday", "today", "tomorrow"}
\* what the user types into the party size field
PartyInputs == {"", "0", "1", "2.5"}
\* the time zones of the clients, in hours ahead of UTC, and the hours of
\* the day in UTC at which the page is used
UtcOffsets == {0 - 5, 0, 2}
UtcHours == {2, 12, 23}
HoursPerDay == 24

Trim(s) ==
    CASE s = " " -> ""
      [] s = " Tarte " -> "Tarte"
      [] OTHER -> s

(***************************************************************************)
(* formData and its parts. An object {} that was never committed is the    *)
(* record with committed = FALSE; reading a field of it yields undefined,  *)
(* which every reader replaces by '' (x || '').                            *)
(***************************************************************************)
EmptyBasic == [committed |-> FALSE, restaurantName |-> "", visitDate |-> "", partySize |-> ""]
EmptyLocation == [committed |-> FALSE, city |-> ""]
EmptyRating == [committed |-> FALSE, overall |-> ""]

EmptyFormData ==
    [basicInfo |-> EmptyBasic, location |-> EmptyLocation,
     rating |-> EmptyRating, dishes |-> << >>]

\* the src of a preview image that shows nothing, and the null of image: null
NoImage == ""

\* currentDishCard = null
NoCard == 0

\* src.startsWith('data:')
IsDataUrl(src) == src \in {"data:image/png;base64,AAAA"}

(***************************************************************************)
(* State. The first group are the variables of the closure in              *)
(* review_modal.js, the second the fields of the ReviewDraftManager, the   *)
(* third the part of the document the handlers read and write, the fourth  *)
(* the requests awaiting a response and the server.                        *)
(***************************************************************************)
VARIABLES
    currentStep,        \* let currentStep
    formData,           \* let formData
    hasUnsavedChanges,  \* let hasUnsavedChanges (review_modal.js)
    dishCounter,        \* let dishCounter
    draftId,            \* draftManager.draftId
    dirty,              \* draftManager.hasUnsavedChanges
    autosaveOn,         \* draftManager.autosaveInterval is set
    timers,             \* the intervals setInterval started and clearInterval has not cleared
    shown,              \* the modal is shown (modal.show / modal.hide)
    pane,               \* the step whose pane showStep displayed, -1: none
    navStep,            \* the step updateNavigationButtons laid the buttons out for
    editButtons,        \* the data-target-step values of the summary's edit buttons
    errorShown,         \* errorDiv is displayed
    errorText,          \* errorDiv.innerHTML
    submitDisabled,     \* submitBtn.disabled
    nextDisabled,       \* nextBtn.disabled
    nameInput,          \* #reviewRestaurantName value
    dateInput,          \* #reviewVisitDate value
    partyInput,         \* #reviewPartySize value
    dateErrorShown,     \* #dateValidationError is displayed
    summary,            \* what #reviewSummary shows: << >>, or the formData it was built from
    cards,              \* the dish cards of #dishesContainer, in document order
    currentDishCard,    \* let currentDishCard: the id of a card, NoCard for null
    searchShown,        \* the encyclopedia search modal is shown
    searchInput,        \* encyclopediaSearchInput.value
    searchResults,      \* the entries listed in encyclopediaSearchResults
    searchStatus,       \* encyclopediaSearchStatus: its text, "" when it is not displayed
    searchTimeout,      \* the queries of the timers of the search field that were set and
                        \* have neither fired nor been cleared, in the order they were set
    net,                \* bag of the requests awaiting their response
    drafts,             \* DraftStore: the draft records, least recently saved first
    nextId,             \* DraftStore: the next identifier to mint
    redirecting,        \* the page is about to be replaced (setTimeout of submitReview)
    sendsLeft,          \* requests the page may still send in this run
    utcOffset,          \* the client's time zone: hours its clock is ahead of UTC
    utcHour,            \* the hour of the day, in UTC
    linkModalShown,     \* review_dish_link.js: the link modal is shown
    createFormShown,    \* review_dish_link.js: createEntrySection is displayed
    createFormError,    \* review_dish_link.js: createFormError's text, "" when hidden
    saveAndLinkDisabled,\* review_dish_link.js: saveAndLinkBtn.disabled
    badgeEncyclopediaId,\* review_dish_link.js: the badge's dataset.encyclopediaId, "" when unlinked
    badgeHandlers,      \* review_dish_link.js: the click listeners the badge has, by the function that added them
    badgeDisabled,      \* review_dish_link.js: the badge's disabled
    linkSearch,         \* review_dish_link.js: the search of the link modal
    linkNet,            \* review_dish_link.js: the requests awaiting their response
    linkSendsLeft,      \* requests the page of review_dish_link.js may still send
    sessionNo,          \* history: the sessions opened so far
    savedId,            \* history: the id the session's latest successful save returned
    mintedOnce,         \* history: a save the session sent without id has succeeded
    ended,              \* history: the sessions submitted, or whose draft was deleted
    loaded,             \* history: the store as it was when the page was loaded
    issued,             \* history: the queries of the searches sent, in the order sent
    opener,             \* history: the id of the card the search was last opened from
    reviews,            \* history: the reviews the submission endpoint created, by the session submitted
    tree                \* encyclopedia_tree.js: the state of the page of the encyclopedia

clientVars ==
    << currentStep, formData, hasUnsavedChanges, dishCounter, draftId, dirty,
       autosaveOn, timers, shown, pane, navStep, editButtons, errorShown, errorText,
       submitDisabled,
       nextDisabled, nameInput, dateInput, partyInput, dateErrorShown, summary,
       cards, currentDishCard, searchShown, searchInput, searchResults,
       searchStatus, searchTimeout >>

\* the clock of the client
Clock == << utcOffset, utcHour >>

\* the state of the page of review_dish_link.js
LinkPage ==
    << linkModalShown, createFormShown, createFormError, saveAndLinkDisabled,
       badgeEncyclopediaId, badgeHandlers, badgeDisabled, linkSearch, linkNet,
       linkSendsLeft >>

vars ==
    << clientVars, net, drafts, nextId, redirecting, sendsLeft, sessionNo, savedId,
       mintedOnce, ended, loaded, reviews, issued, opener, Clock, LinkPage, tree >>

(***************************************************************************)
(* The handlers are written as operators on the client's state m, a record *)
(* of the client variables and three fields a handler uses while it runs: *)
(* ex (an exception was thrown: the rest of the handler is skipped), valid *)
(* (the value validateCurrentStep returned) and out (the requests the      *)
(* handler sent). The field session is the number of the session the       *)
(* handler runs in; the code has no such number, it is kept to tell the    *)
(* requests and the drafts of one session from another's. The fields       *)
(* utcOffset and utcHour are the clock new Date() reads.                   *)
(***************************************************************************)
Client ==
    [currentStep |-> currentStep, formData |-> formData,
     hasUnsavedChanges |-> hasUnsavedChanges, dishCounter |-> dishCounter,
     draftId |-> draftId, dirty |-> dirty, autosaveOn |-> autosaveOn,
     timers |-> timers,
     shown |-> shown, pane |-> pane, navStep |-> navStep,
     editButtons |-> editButtons, errorShown |-> errorShown,
     errorText |-> errorText,
     submitDisabled |-> submitDisabled, nextDisabled |-> nextDisabled,
     nameInput |-> nameInput,
     dateInput |-> dateInput, partyInput |-> partyInput,
     dateErrorShown |-> dateErrorShown, summary |-> summary, cards |-> cards,
     currentDishCard |-> currentDishCard, searchShown |-> searchShown,
     searchInput |-> searchInput, searchResults |-> searchResults,
     searchStatus |-> searchStatus, searchTimeout |-> searchTimeout,
     utcOffset |-> utcOffset, utcHour |-> utcHour,
     ex |-> FALSE, valid |-> TRUE, out |-> << >>, session |-> sessionNo]

\* the client's state after a handler: m's fields become the variables
Becomes(m) ==
    /\ currentStep' = m.currentStep
    /\ formData' = m.formData
    /\ hasUnsavedChanges' = m.hasUnsavedChanges
    /\ dishCounter' = m.dishCounter
    /\ draftId' = m.draftId
    /\ dirty' = m.dirty
    /\ autosaveOn' = m.autosaveOn
    /\ timers' = m.timers
    /\ shown' = m.shown
    /\ pane' = m.pane
    /\ navStep' = m.navStep
    /\ editButtons' = m.editButtons
    /\ errorShown' = m.errorShown
    /\ errorText' = m.errorText
    /\ submitDisabled' = m.submitDisabled
    /\ nextDisabled' = m.nextDisabled
    /\ nameInput' = m.nameInput
    /\ dateInput' = m.dateInput
    /\ partyInput' = m.partyInput
    /\ dateErrorShown' = m.dateErrorShown
    /\ summary' = m.summary
    /\ cards' = m.cards
    /\ currentDishCard' = m.currentDishCard
    /\ searchShown' = m.searchShown
    /\ searchInput' = m.searchInput
    /\ searchResults' = m.searchResults
    /\ searchStatus' = m.searchStatus
    /\ searchTimeout' = m.searchTimeout

\* a TypeError (a field of undefined is read): the handler stops here
Throw(m) == [m EXCEPT !.ex = TRUE]

(***************************************************************************)
(* review_modal.js: the dish editor's save.                                *)
(***************************************************************************)
\* the object saveDishes pushes for one card
DishOfCard(c) ==
    [name |-> Trim(c.name), rating |-> c.rating, notes |-> Trim(c.notes),
     image |-> IF IsDataUrl(c.image) THEN c.image ELSE NoImage,
     encyclopedia_ids |-> c.links]

RECURSIVE DishesOf(_)
\* the array saveDishes builds: the cards with a name, in document order
DishesOf(cs) ==
    IF cs = << >> THEN << >>
    ELSE (IF Trim(Head(cs).name) # "" THEN << DishOfCard(Head(cs)) >> ELSE << >>)
         \o DishesOf(Tail(cs))

\* saveDishes without its draftManager.markUnsaved()
saveDishesUnmarked(m) ==
    IF m.ex THEN m
    ELSE [m EXCEPT !.formData.dishes = DishesOf(m.cards),
                   !.hasUnsavedChanges = TRUE]

saveDishes(m) ==
    IF m.ex THEN m
    ELSE [m EXCEPT !.formData.dishes = DishesOf(m.cards),
                   !.hasUnsavedChanges = TRUE,
                   !.dirty = TRUE]

(***************************************************************************)
(* review_modal.js: validation.                                            *)
(***************************************************************************)
\* new Date(d).getTime() of a date d: the midnight of d in UTC, in hours
\* from the midnight in UTC of the day the page is used on
UtcMidnight(d) ==
    CASE d = "yesterday" -> 0 - HoursPerDay
      [] d = "today" -> 0
      [] d = "tomorrow" -> HoursPerDay

\* today.setHours(0, 0, 0, 0): the midnight, in the client's time zone, of
\* the day the client's clock shows, in hours on the same scale
LocalMidnight(offset, hour) == ((hour + offset) \div HoursPerDay) * HoursPerDay - offset

\* selectedDate > today
DateInFuture(d, offset, hour) == UtcMidnight(d) > LocalMidnight(offset, hour)

\* parseInt of the values the party size input takes: << >> is NaN
ParseInt(v) ==
    CASE v = "" -> << >>
      [] v = "0" -> << 0 >>
      [] v = "1" -> << 1 >>
      [] v = "2.5" -> << 2 >>

\* partySize < 1 || isNaN(partySize)
PartySizeRefused(v) == ParseInt(v) = << >> \/ ParseInt(v)[1] < 1

\* the visit date is given and selectedDate > today
VisitDateRefused(m) ==
    Trim(m.dateInput) # "" /\ DateInFuture(Trim(m.dateInput), m.utcOffset, m.utcHour)

\* case 'basic-info' of validateCurrentStep: isValid
ValidBasicInfo(m) ==
    /\ Trim(m.nameInput) # ""
    /\ Trim(m.dateInput) # ""
    /\ ~VisitDateRefused(m)
    /\ ~PartySizeRefused(m.partyInput)

\* case 'basic-info' of validateCurrentStep: the date error is displayed or
\* hidden
DateErrorState(m) == [m EXCEPT !.dateErrorShown = VisitDateRefused(m)]

\* the end of validateCurrentStep: the next button, if it is displayed, is
\* disabled when the step is required and invalid; isValid is returned
NextButtonState(m, step, isValid) ==
    [m EXCEPT !.valid = isValid,
              !.nextDisabled = IF m.navStep # LastIndex
                               THEN ~isValid /\ step.required
                               ELSE m.nextDisabled]

\* validateCurrentStep counting the cards of the editor on the dishes step
validateCurrentStepAnyCard(m) ==
    IF m.ex THEN m
    ELSE IF ~InRange(m.currentStep) THEN Throw(m)
    ELSE LET step == StepAt(m.currentStep) IN
         IF ~step.required THEN NextButtonState(m, step, TRUE)
         ELSE IF step.id = "basic-info"
              THEN NextButtonState(DateErrorState(m), step, ValidBasicInfo(m))
         ELSE IF step.id = "dishes"
              THEN LET m1 == saveDishes(m) IN
                   NextButtonState(m1, step, Len(m1.cards) > 0)
         ELSE NextButtonState(m, step, TRUE)

validateCurrentStep(m) ==
    IF m.ex THEN m
    ELSE IF ~InRange(m.currentStep) THEN Throw(m)
    ELSE LET step == StepAt(m.currentStep) IN
         IF ~step.required THEN NextButtonState(m, step, TRUE)
         ELSE IF step.id = "basic-info"
              THEN NextButtonState(DateErrorState(m), step, ValidBasicInfo(m))
         ELSE IF step.id = "dishes"
              THEN LET m1 == saveDishes(m) IN
                   NextButtonState(m1, step, Len(m1.formData.dishes) > 0)
         ELSE NextButtonState(m, step, TRUE)

(***************************************************************************)
(* review_modal.js: committing the current step's fields.                  *)
(***************************************************************************)
saveCurrentStepData(m) ==
    IF m.ex THEN m
    ELSE LET m1 == [m EXCEPT !.hasUnsavedChanges = TRUE, !.dirty = TRUE] IN
         IF ~InRange(m.currentStep) THEN Throw(m1)
         ELSE LET id == StepAt(m.currentStep).id IN
              IF id = "basic-info"
              THEN [m1 EXCEPT !.formData.basicInfo =
                        [committed |-> TRUE, restaurantName |-> Trim(m.nameInput),
                         visitDate |-> Trim(m.dateInput), partySize |-> m.partyInput]]
              ELSE IF id = "location"
              THEN [m1 EXCEPT !.formData.location = [committed |-> TRUE, city |-> ""]]
              ELSE IF id = "rating"
              THEN [m1 EXCEPT !.formData.rating = [committed |-> TRUE, overall |-> "50"]]
              ELSE m1

(***************************************************************************)
(* review_modal.js: display.                                               *)
(***************************************************************************)
showError(m, message) ==
    IF m.ex THEN m ELSE [m EXCEPT !.errorShown = TRUE, !.errorText = message]

hideError(m) ==
    IF m.ex THEN m ELSE [m EXCEPT !.errorShown = FALSE, !.errorText = ""]

\* the buttons are laid out for currentStep, then the step is validated
updateNavigationButtons(m) ==
    IF m.ex THEN m
    ELSE IF ~InRange(m.currentStep) THEN Throw(m)
    ELSE validateCurrentStep([m EXCEPT !.navStep = m.currentStep])

\* every pane is hidden before REVIEW_STEPS[stepIndex].id is read
showStep(m, stepIndex) ==
    IF m.ex THEN m
    ELSE IF ~InRange(stepIndex) THEN Throw([m EXCEPT !.pane = -1])
    ELSE updateNavigationButtons([m EXCEPT !.pane = stepIndex])

\* the data-target-step values of the edit buttons the summary is built with;
\* the location section is built only when a location field holds a value
EditTargets(fd) ==
    {i \in 0..LastIndex :
        /\ StepAt(i).id # "confirm"
        /\ StepAt(i).id = "location" => fd.location.city # ""}

populateReviewSummary(m) ==
    IF m.ex THEN m
    ELSE [m EXCEPT !.summary = << m.formData >>,
                   !.editButtons = EditTargets(m.formData)]

\* if (REVIEW_STEPS[currentStep].id === 'confirm') populateReviewSummary()
SummaryIfConfirm(m) ==
    IF m.ex THEN m
    ELSE IF ~InRange(m.currentStep) THEN Throw(m)
    ELSE IF StepAt(m.currentStep).id = "confirm" THEN populateReviewSummary(m)
    ELSE m

\* REVIEW_STEPS[i].id where the handler has already read REVIEW_STEPS[i]
StepId(i) == IF InRange(i) THEN StepAt(i).id ELSE "undefined"

(***************************************************************************)
(* review_draft.js: the requests of the draft manager.                     *)
(***************************************************************************)
\* a request awaiting its response; k names the handler that awaits it and
\* live is FALSE once the page that sent it has been replaced
Request(type, id, step, data, k, target) ==
    [type |-> type, draft_id |-> id, step |-> step, data |-> data,
     k |-> k, target |-> target, live |-> TRUE, session |-> 0]

Send(m, req) ==
    IF m.ex THEN m
    ELSE [m EXCEPT !.out = Append(m.out, [req EXCEPT !.session = m.session])]

\* saveDraft up to its await: the body is serialized when the request is sent
saveDraft(m, step, k, target) ==
    Send(m, Request("save", m.draftId, step, m.formData, k, target))

\* saveDraftDone with a failure that clears the dirty flag as well
saveDraftDoneClearing(m, success, id) ==
    IF success THEN [m EXCEPT !.draftId = id, !.dirty = FALSE]
    ELSE [m EXCEPT !.dirty = FALSE]

\* saveDraft after its await
saveDraftDone(m, success, id) ==
    IF success THEN [m EXCEPT !.draftId = id, !.dirty = FALSE] ELSE m

\* deleteDraft up to its await; idToDelete = draftId || this.draftId
deleteDraft(m, id) ==
    LET idToDelete == IF id # NullId THEN id ELSE m.draftId IN
    IF idToDelete = NullId THEN m
    ELSE Send(m, Request("delete", idToDelete, "", EmptyFormData, "delete", 0))

\* deleteDraft after its await
deleteDraftDone(m, success) ==
    IF success THEN [m EXCEPT !.draftId = NullId, !.dirty = FALSE] ELSE m

\* if (this.autosaveInterval) { clearInterval(...); this.autosaveInterval = null }
stopAutosave(m) ==
    IF m.ex \/ ~m.autosaveOn THEN m
    ELSE [m EXCEPT !.autosaveOn = FALSE, !.timers = m.timers - 1]

\* startAutosave keeping the interval that runs
startAutosaveKeeping(m) ==
    IF m.ex THEN m ELSE [m EXCEPT !.autosaveOn = TRUE, !.timers = m.timers + 1]

\* this.stopAutosave(); this.autosaveInterval = setInterval(...)
startAutosave(m) ==
    IF m.ex THEN m
    ELSE LET m1 == stopAutosave(m) IN
         [m1 EXCEPT !.autosaveOn = TRUE, !.timers = m1.timers + 1]

\* the callback of the autosave interval, up to the await of its saveDraft:
\* getCurrentStep() reads REVIEW_STEPS[currentStep].id and throws on an
\* unknown step, getFormData() gives formData as it is now
autosaveTick(m) ==
    IF ~m.dirty THEN m
    ELSE IF ~InRange(m.currentStep) THEN Throw(m)
    ELSE saveDraft(m, StepId(m.currentStep), "tick", 0)

\* ReviewDraftManager.reset
reset(m) ==
    IF m.ex THEN m
    ELSE [stopAutosave(m) EXCEPT !.draftId = NullId, !.dirty = FALSE]

(***************************************************************************)
(* review_modal.js: closing and resetting.                                 *)
(***************************************************************************)
\* form.reset() empties the inputs; the container of the cards is emptied
resetModal(m) ==
    IF m.ex THEN m
    ELSE hideError(stopAutosave(
           [m EXCEPT !.currentStep = 0,
                     !.formData = EmptyFormData,
                     !.hasUnsavedChanges = FALSE,
                     !.dishCounter = 0,
                     !.nameInput = "",
                     !.dateInput = "",
                     !.partyInput = "",
                     !.cards = << >>]))

\* modal.hide(); the hidden.bs.modal event it raises runs resetModal once more
hide(m) == IF m.ex THEN m ELSE [m EXCEPT !.shown = FALSE]

\* closeModal up to its await
closeModal(m) ==
    IF m.hasUnsavedChanges \/ m.dirty
    THEN LET m1 == saveCurrentStepData(m) IN
         saveDraft(m1, StepId(m1.currentStep), "close", 0)
    ELSE resetModal(hide(m))

\* closeModal after its await; confirmed is the answer to confirm(...)
closeModalResume(m, confirmed) ==
    IF m.hasUnsavedChanges
    THEN IF confirmed THEN resetModal(hide(m)) ELSE m
    ELSE resetModal(hide(m))

(***************************************************************************)
(* review_modal.js: the dish editor.                                       *)
(***************************************************************************)
\* the card addDish builds; restored: dishData was given
NewCard(id, dishData, restored) ==
    IF restored
    THEN [id |-> id, name |-> dishData.name,
          rating |-> IF dishData.rating = "" THEN "50" ELSE dishData.rating,
          notes |-> dishData.notes,
          image |-> dishData.image,
          links |-> dishData.encyclopedia_ids]
    ELSE [id |-> id, name |-> "", rating |-> "50", notes |-> "",
          image |-> NoImage, links |-> << >>]

addDish(m, dishData, restored) ==
    IF m.ex THEN m
    ELSE LET n == m.dishCounter + 1
             m1 == [m EXCEPT !.dishCounter = n,
                             !.cards = Append(m.cards, NewCard(n, dishData, restored))]
         IN  validateCurrentStep(saveDishes(m1))

\* hasData without the notes
HasDataNoNotes(c) == Trim(c.name) # "" \/ IsDataUrl(c.image)

\* const hasData = name !== '' || notes !== '' || hasImage
HasData(c) == Trim(c.name) # "" \/ Trim(c.notes) # "" \/ IsDataUrl(c.image)

\* the handler of a card's remove button: the card at position i; confirmed
\* is the answer to confirm(...), which is asked for a card with data
removeDish(m, i, confirmed) ==
    IF HasData(m.cards[i]) /\ ~confirmed THEN m
    ELSE LET m1 == [m EXCEPT !.cards = SubSeq(m.cards, 1, i - 1)
                                       \o SubSeq(m.cards, i + 1, Len(m.cards))]
         IN  validateCurrentStep(saveDishes(m1))

\* the input handler of a card's name field
dishNameInput(m, i, v) ==
    validateCurrentStep(saveDishes([m EXCEPT !.cards[i].name = v]))

\* the input handler of a card's notes field
dishNotesInput(m, i, v) == saveDishes([m EXCEPT !.cards[i].notes = v])

\* the input handler of a card's rating slider
dishRatingInput(m, i, v) == saveDishes([m EXCEPT !.cards[i].rating = v])

\* the card at position i + 1 is copied over the card at position i
Overwritten(cs, i) == [cs EXCEPT ![i] = cs[i + 1]]

\* parentNode.insertBefore: the cards at positions i and i + 1 change places
Swapped(cs, i) == [cs EXCEPT ![i] = cs[i + 1], ![i + 1] = cs[i]]

\* moveDishUp without its saveDishes
moveDishUpUnsaved(m, i) ==
    IF i > 1 THEN [m EXCEPT !.cards = Swapped(m.cards, i - 1)] ELSE m

\* the card at position i; the first card has no previous sibling
moveDishUp(m, i) ==
    IF i > 1 THEN saveDishes([m EXCEPT !.cards = Swapped(m.cards, i - 1)]) ELSE m

\* the card at position i; the last card has no next sibling
moveDishDown(m, i) ==
    IF i < Len(m.cards) THEN saveDishes([m EXCEPT !.cards = Swapped(m.cards, i)]) ELSE m

\* handleImageFile for the card at position i, with the onload of its
\* FileReader: a file of a wrong type or size is refused with the error
handleImageFile(m, i, file) ==
    IF ~file.ok
    THEN showError(m, "Invalid file type. Please select a JPEG, PNG, or WebP image.")
    ELSE saveDishes([hideError(m) EXCEPT !.cards[i].image = file.url])

\* the handler of a card's remove-image button
removeImage(m, i) == saveDishes([m EXCEPT !.cards[i].image = NoImage])

\* the position of the card with the identifier id among the cards cs
CardIndex(cs, id) == CHOOSE i \in 1..Len(cs) : cs[i].id = id

\* openEncyclopediaSearch from the card at position i
openEncyclopediaSearch(m, i) ==
    [m EXCEPT !.currentDishCard = m.cards[i].id,
              !.searchInput = "",
              !.searchResults = << >>,
              !.searchStatus = "",
              !.searchShown = TRUE]

\* encyclopediaSearchModal.hide() with the hidden.bs.modal listener that
\* follows it
hideSearch(m) ==
    [m EXCEPT !.searchShown = FALSE,
              !.searchInput = "",
              !.searchResults = << >>,
              !.searchStatus = "",
              !.currentDishCard = NoCard]

\* clearTimeout(encyclopediaSearchTimeout): the variable holds the timer
\* that was set last; if it has not fired it is the last of the pending ones
clearSearchTimeout(timeouts) ==
    IF timeouts = << >> THEN << >> ELSE SubSeq(timeouts, 1, Len(timeouts) - 1)

\* the input listener of the search field without its clearTimeout
searchInputListenerKeeping(m, v) ==
    LET m1 == [m EXCEPT !.searchInput = v]
        query == Trim(v)
    IN  IF ShortQuery(query)
        THEN [m1 EXCEPT !.searchResults = << >>,
                        !.searchStatus = "Type at least 2 characters to search"]
        ELSE [m1 EXCEPT !.searchStatus = "Searching...",
                        !.searchTimeout = Append(m1.searchTimeout, query)]

\* the input listener of the search field: the pending timer is cleared, a
\* query of two characters or more is scheduled
searchInputListener(m, v) ==
    LET m1 == [m EXCEPT !.searchInput = v,
                        !.searchTimeout = clearSearchTimeout(m.searchTimeout)]
        query == Trim(v)
    IN  IF ShortQuery(query)
        THEN [m1 EXCEPT !.searchResults = << >>,
                        !.searchStatus = "Type at least 2 characters to search"]
        ELSE [m1 EXCEPT !.searchStatus = "Searching...",
                        !.searchTimeout = Append(m1.searchTimeout, query)]

\* the request of performEncyclopediaSearch
SearchRequest(query) ==
    [type |-> "search", draft_id |-> NullId, step |-> "", data |-> EmptyFormData,
     k |-> "search", target |-> 0, live |-> TRUE, session |-> 0, query |-> query]

\* the timer that was set first fires: performEncyclopediaSearch up to its
\* fetch
performEncyclopediaSearch(m, query) ==
    Send([m EXCEPT !.searchTimeout = Tail(m.searchTimeout)], SearchRequest(query))

\* performEncyclopediaSearch: the catch of a failed search, closing the search
searchFailedClosing(m) ==
    hideSearch([m EXCEPT !.searchStatus = "Error performing search"])

\* performEncyclopediaSearch: the catch of a failed search
searchFailed(m) == [m EXCEPT !.searchStatus = "Error performing search"]

\* performEncyclopediaSearch: the then of an answered search
searchDone(m, results) ==
    IF results = << >>
    THEN [m EXCEPT !.searchResults = << >>, !.searchStatus = "No results found"]
    ELSE [m EXCEPT !.searchResults = results, !.searchStatus = ""]

\* addEncyclopediaLink adding the new link to the links the card has
addEncyclopediaLinkAppending(m, i, entry) ==
    hideSearch(saveDishes([m EXCEPT !.cards[i].links = m.cards[i].links \o << entry >>]))

\* one link per dish: the new link replaces the one the card had; the
\* search is cleared and closed
addEncyclopediaLink(m, i, entry) ==
    hideSearch(saveDishes([m EXCEPT !.cards[i].links = << entry >>]))

removeEncyclopediaLink(m, i) == saveDishes([m EXCEPT !.cards[i].links = << >>])

(***************************************************************************)
(* review_modal.js: opening and restoring.                                 *)
(***************************************************************************)
RECURSIVE AddDishes(_, _)
\* formData.dishes.forEach(dishData => addDish(dishData))
AddDishes(m, ds) ==
    IF ds = << >> THEN m ELSE AddDishes(addDish(m, Head(ds), TRUE), Tail(ds))

restoreDraftData(m, draft) ==
    LET m1 == [m EXCEPT !.formData = draft.data,
                        !.nameInput = draft.data.basicInfo.restaurantName,
                        !.dateInput = draft.data.basicInfo.visitDate,
                        !.partyInput = IF draft.data.basicInfo.partySize = ""
                                       THEN "1"
                                       ELSE draft.data.basicInfo.partySize]
        m2 == AddDishes(m1, draft.data.dishes)
    IN  IF m2.ex THEN m2 ELSE [m2 EXCEPT !.hasUnsavedChanges = FALSE]

\* openModal after draftManager.init(): found says whether init returned a draft
openModalResume(m, found, draft) ==
    LET m1 == IF found
              THEN LET r == restoreDraftData(m, draft)
                       i == FindIndex(draft.step)
                   IN  IF r.ex THEN r
                       ELSE [r EXCEPT !.currentStep = IF i = -1 THEN 0 ELSE i]
              ELSE [m EXCEPT !.currentStep = 0,
                             !.formData = EmptyFormData,
                             !.hasUnsavedChanges = FALSE,
                             !.dateInput = Today,
                             !.partyInput = "1"]
        m2 == startAutosave(m1)
        m3 == showStep(m2, m2.currentStep)
    IN  IF m3.ex THEN m3 ELSE [m3 EXCEPT !.shown = TRUE]

(***************************************************************************)
(* review_modal.js: navigation. Each handler that awaits saveNow is given  *)
(* as the part before the await and the part after it.                     *)
(***************************************************************************)
\* goToNextStep without its return on a required step that is invalid
goToNextStepUngated(m) ==
    IF m.currentStep >= LastIndex THEN m
    ELSE IF ~InRange(m.currentStep) THEN Throw(m)
    ELSE LET step == StepAt(m.currentStep)
             v == validateCurrentStep(m)
         IN  saveDraft(saveCurrentStepData(v), step.id, "next", 0)

goToNextStep(m) ==
    IF m.currentStep >= LastIndex THEN m
    ELSE IF ~InRange(m.currentStep) THEN Throw(m)
    ELSE LET step == StepAt(m.currentStep)
             v == validateCurrentStep(m)
         IN  IF step.required /\ ~v.valid
             THEN showError(v, "Please fill in all required fields before continuing.")
             ELSE saveDraft(saveCurrentStepData(v), step.id, "next", 0)

goToNextStepResume(m) ==
    LET m1 == [hideError(m) EXCEPT !.currentStep = m.currentStep + 1]
    IN  showStep(SummaryIfConfirm(m1), m1.currentStep)

goToPreviousStep(m) ==
    IF m.currentStep <= 0 THEN m
    ELSE LET m1 == saveCurrentStepData(m) IN
         saveDraft(m1, StepId(m1.currentStep), "back", 0)

goToPreviousStepResume(m) ==
    LET m1 == [hideError(m) EXCEPT !.currentStep = m.currentStep - 1]
    IN  showStep(m1, m1.currentStep)

\* skipStep committing the fields of the step it leaves
skipStepCommitting(m) ==
    IF ~InRange(m.currentStep) THEN Throw(m)
    ELSE IF StepAt(m.currentStep).required THEN m
    ELSE LET m1 == [saveCurrentStepData(m) EXCEPT !.currentStep = m.currentStep + 1]
         IN  showStep(SummaryIfConfirm(m1), m1.currentStep)

skipStep(m) ==
    IF ~InRange(m.currentStep) THEN Throw(m)
    ELSE IF StepAt(m.currentStep).required THEN m
    ELSE LET m1 == [m EXCEPT !.currentStep = m.currentStep + 1]
         IN  showStep(SummaryIfConfirm(m1), m1.currentStep)

goToStep(m, stepIndex) ==
    IF stepIndex < 0 \/ stepIndex >= Len(REVIEW_STEPS) THEN m
    ELSE LET m1 == saveCurrentStepData(m) IN
         saveDraft(m1, StepId(m1.currentStep), "goto", stepIndex)

goToStepResume(m, stepIndex) ==
    showStep([m EXCEPT !.currentStep = stepIndex], stepIndex)

(***************************************************************************)
(* review_modal.js: submission.                                            *)
(***************************************************************************)
\* submitReview serializing no draft id
submitReviewWithoutId(m) ==
    LET m1 == saveDishes(saveCurrentStepData(m)) IN
    IF m1.ex THEN m1
    ELSE Send([m1 EXCEPT !.submitDisabled = TRUE],
              Request("submit", NullId, "", m1.formData, "submit", 0))

\* submitReview without the disabling of the submit button
submitReviewEnabled(m) ==
    LET m1 == saveDishes(saveCurrentStepData(m)) IN
    IF m1.ex THEN m1
    ELSE Send(m1, Request("submit", m1.draftId, "", m1.formData, "submit", 0))

\* submitReview up to its await
submitReview(m) ==
    LET m1 == saveDishes(saveCurrentStepData(m)) IN
    IF m1.ex THEN m1
    ELSE Send([m1 EXCEPT !.submitDisabled = TRUE],
              Request("submit", m1.draftId, "", m1.formData, "submit", 0))

\* the answers of the submission endpoint: success, field-keyed errors (the
\* entries of result.errors in their order), a failure without them; and
\* the fetch that fails
Accepted == [kind |-> "success", errors |-> << >>]
Rejected(errors) == [kind |-> "errors", errors |-> errors]
Refused == [kind |-> "error", errors |-> << >>]
Unreachable == [kind |-> "network", errors |-> << >>]

RECURSIVE JoinBr(_)
\* errorMessages.join('<br>') over the messages of the entries
JoinBr(entries) ==
    IF entries = << >> THEN ""
    ELSE IF Len(entries) = 1 THEN entries[1].message
    ELSE entries[1].message \o "<br>" \o JoinBr(Tail(entries))

\* submitReviewDone with a failure that resets the draft manager as well
submitReviewDoneResetting(m, result) ==
    IF result.kind = "success"
    THEN resetModal(hide(reset(m)))
    ELSE [showError(reset(m), "Failed to submit review. Please try again.")
             EXCEPT !.submitDisabled = FALSE]

\* submitReview after its await
submitReviewDone(m, result) ==
    IF result.kind = "success"
    THEN resetModal(hide(reset(m)))
    ELSE LET message ==
                 IF result.kind = "errors" THEN JoinBr(result.errors)
                 ELSE IF result.kind = "error"
                      THEN "Failed to submit review. Please try again."
                 ELSE "Network error. Please check your connection and try again."
         IN  [showError(m, message) EXCEPT !.submitDisabled = FALSE]

\* the continuation of the handler that awaited a save
Continue(m, r, confirmed) ==
    IF r.k = "next" THEN goToNextStepResume(m)
    ELSE IF r.k = "back" THEN goToPreviousStepResume(m)
    ELSE IF r.k = "goto" THEN goToStepResume(m, r.target)
    ELSE IF r.k = "close" THEN closeModalResume(m, confirmed)
    ELSE m

(***************************************************************************)
(* The DraftStore, modelled from sections 4.2 and 6 of the specification:  *)
(* a save reuses the identifier it is given and mints one otherwise, the   *)
(* retrieval returns the most recently saved draft, a delete is            *)
(* idempotent. The submission endpoint discards the draft it is given.     *)
(***************************************************************************)
StoreWithout(ds, id) == SelectSeq(ds, LAMBDA d : d.id # id)

\* owner: the session whose save wrote the record
StoreSave(ds, id, step, data, owner) ==
    Append(StoreWithout(ds, id),
           [id |-> id, step |-> step, data |-> data, owner |-> owner])

StoreLatest(ds) == ds[Len(ds)]

\* the identifier a save answers with
SavedId(r) == IF r.draft_id = NullId THEN nextId ELSE r.draft_id

\* the message the endpoint gives for a field that is required
RequiredMessage == "This field is required."

\* the field-keyed errors the endpoint may answer with
SubmitErrors ==
    {<< [field |-> "restaurantName", message |-> RequiredMessage] >>,
     << [field |-> "dishes", message |-> RequiredMessage] >>,
     << [field |-> "restaurantName", message |-> RequiredMessage],
        [field |-> "dishes", message |-> "Add at least one dish."] >>}

\* the step that owns a field of the submission
OwnerStep(field) ==
    CASE field = "restaurantName" -> "basic-info"
      [] field = "dishes" -> "dishes"

(***************************************************************************)
(* The steps of the system.                                                *)
(***************************************************************************)
RECURSIVE BagOfSeq(_)
BagOfSeq(q) == IF q = << >> THEN EmptyBag ELSE SetToBag({Head(q)}) (+) BagOfSeq(Tail(q))

One(r) == SetToBag({r})

\* a handler ran and left the client in m; the requests in answered got
\* their response and leave net, the requests the handler sent enter it
Handled(m, answered) ==
    LET n == (net (-) answered) (+) BagOfSeq(m.out) IN
    /\ BagCardinality(n) <= MaxInFlight
    /\ Len(m.out) <= sendsLeft
    /\ net' = n
    /\ sendsLeft' = sendsLeft - Len(m.out)
    /\ Becomes(m)

Server == << drafts, nextId >>

History == << sessionNo, savedId, mintedOnce, ended, loaded, reviews, issued, opener >>

\* a click on #openReviewModal: openModal up to await draftManager.init()
OpenClick ==
    /\ ~shown
    /\ Handled(Send(Client, Request("retrieve", NullId, "", EmptyFormData, "open", 0)),
               EmptyBag)
    /\ UNCHANGED << Server, redirecting, History, Clock, LinkPage, tree >>

\* the retrieval r is answered: a draft is found and the user accepts or
\* declines it, or none is found, or the request fails (failed)
RetrieveAnswered(r, failed, accepted) ==
    /\ r.type = "retrieve"
    /\ r.live
    /\ LET found == ~failed /\ drafts # << >>
           draft == StoreLatest(drafts)
           m0 == IF found THEN [Client EXCEPT !.draftId = draft.id] ELSE Client
           m1 == IF found /\ ~accepted THEN deleteDraft(m0, draft.id) ELSE m0
       IN  Handled(openModalResume(m1, found /\ accepted, draft), One(r))
    /\ sessionNo' = sessionNo + 1
    /\ savedId' = NullId
    /\ mintedOnce' = FALSE
    /\ UNCHANGED << Server, redirecting, ended, loaded, reviews, issued, opener, Clock, LinkPage, tree >>

RetrieveResponse ==
    \E r \in BagToSet(net) : \E failed, accepted \in BOOLEAN :
        RetrieveAnswered(r, failed, accepted)

\* the user types into the restaurant name input (validateCurrentStep listens)
TypeName ==
    /\ shown /\ pane = FindIndex("basic-info")
    /\ \E v \in NameInputs \ {nameInput} :
           Handled(validateCurrentStep([Client EXCEPT !.nameInput = v]), EmptyBag)
    /\ UNCHANGED << Server, redirecting, History, Clock, LinkPage, tree >>

\* the user picks a date in the visit date field
TypeDate ==
    /\ shown /\ pane = FindIndex("basic-info")
    /\ \E v \in DateInputs \ {dateInput} :
           Handled(validateCurrentStep([Client EXCEPT !.dateInput = v]), EmptyBag)
    /\ UNCHANGED << Server, redirecting, History, Clock, LinkPage, tree >>

\* the user types into the party size field
TypeParty ==
    /\ shown /\ pane = FindIndex("basic-info")
    /\ \E v \in PartyInputs \ {partyInput} :
           Handled(validateCurrentStep([Client EXCEPT !.partyInput = v]), EmptyBag)
    /\ UNCHANGED << Server, redirecting, History, Clock, LinkPage, tree >>

\* a click on #addDishBtn, for at most max cards in a session
AddDishUpTo(max) ==
    /\ shown /\ pane = FindIndex("dishes")
    /\ dishCounter < max
    /\ Handled(addDish(Client, NewCard(0, << >>, FALSE), FALSE), EmptyBag)
    /\ UNCHANGED << Server, redirecting, History, Clock, LinkPage, tree >>

AddDishClick == AddDishUpTo(MaxDishCounter)

\* the user types one of names into the name field of a card
TypeDishNameFrom(names) ==
    /\ shown /\ pane = FindIndex("dishes")
    /\ \E i \in 1..Len(cards) : \E v \in names \ {cards[i].name} :
           Handled(dishNameInput(Client, i, v), EmptyBag)
    /\ UNCHANGED << Server, redirecting, History, Clock, LinkPage, tree >>

TypeDishName == TypeDishNameFrom(DishNameInputs)

\* the user types into the notes field of a card
TypeDishNotes ==
    /\ shown /\ pane = FindIndex("dishes")
    /\ \E i \in 1..Len(cards) : \E v \in DishNotesInputs \ {cards[i].notes} :
           Handled(dishNotesInput(Client, i, v), EmptyBag)
    /\ UNCHANGED << Server, redirecting, History, Clock, LinkPage, tree >>

\* the user drags the rating slider of a card
SlideDishRating ==
    /\ shown /\ pane = FindIndex("dishes")
    /\ \E i \in 1..Len(cards) : \E v \in DishRatingInputs \ {cards[i].rating} :
           Handled(dishRatingInput(Client, i, v), EmptyBag)
    /\ UNCHANGED << Server, redirecting, History, Clock, LinkPage, tree >>

\* a click on a card's move-up button
MoveUpClick ==
    /\ shown /\ pane = FindIndex("dishes")
    /\ \E i \in 1..Len(cards) : Handled(moveDishUp(Client, i), EmptyBag)
    /\ UNCHANGED << Server, redirecting, History, Clock, LinkPage, tree >>

\* a click on a card's move-down button
MoveDownClick ==
    /\ shown /\ pane = FindIndex("dishes")
    /\ \E i \in 1..Len(cards) : Handled(moveDishDown(Client, i), EmptyBag)
    /\ UNCHANGED << Server, redirecting, History, Clock, LinkPage, tree >>

\* the user picks or drops a file on a card
ImageChosen ==
    /\ shown /\ pane = FindIndex("dishes")
    /\ \E i \in 1..Len(cards) : \E file \in ImageFiles :
           Handled(handleImageFile(Client, i, file), EmptyBag)
    /\ UNCHANGED << Server, redirecting, History, Clock, LinkPage, tree >>

\* a click on the remove-image button, which the preview of an image shows
RemoveImageClick ==
    /\ shown /\ pane = FindIndex("dishes")
    /\ \E i \in 1..Len(cards) :
           /\ cards[i].image # NoImage
           /\ Handled(removeImage(Client, i), EmptyBag)
    /\ UNCHANGED << Server, redirecting, History, Clock, LinkPage, tree >>

\* the user picks an entry in the encyclopedia search opened from a card
LinkChosenFrom(entries) ==
    /\ shown /\ pane = FindIndex("dishes")
    /\ \E i \in 1..Len(cards) : \E entry \in entries :
           Handled(addEncyclopediaLink(Client, i, entry), EmptyBag)
    /\ UNCHANGED << Server, redirecting, History, Clock, LinkPage, tree >>

LinkChosen == LinkChosenFrom({TartEntry})

\* a click on the link button of a card
OpenSearchClick ==
    /\ shown /\ pane = FindIndex("dishes") /\ ~searchShown
    /\ \E i \in 1..Len(cards) :
           /\ Handled(openEncyclopediaSearch(Client, i), EmptyBag)
           /\ opener' = cards[i].id
    /\ UNCHANGED << Server, redirecting, sessionNo, savedId, mintedOnce, ended, loaded, reviews,
                    issued, Clock, LinkPage, tree >>

\* the user types into the search field
SearchType ==
    /\ searchShown
    /\ \E v \in SearchInputs \ {searchInput} :
           Handled(searchInputListener(Client, v), EmptyBag)
    /\ UNCHANGED << Server, redirecting, History, Clock, LinkPage, tree >>

\* the timer of the search field fires
SearchTimerFires ==
    /\ searchTimeout # << >>
    /\ Handled(performEncyclopediaSearch(Client, searchTimeout[1]), EmptyBag)
    /\ issued' = Append(issued, searchTimeout[1])
    /\ UNCHANGED << Server, redirecting, sessionNo, savedId, mintedOnce, ended, loaded, reviews,
                    opener, Clock, LinkPage, tree >>

\* the search r is answered with the entries that match its query
SearchSucceeds ==
    /\ \E r \in BagToSet(net) :
           /\ r.type = "search"
           /\ Handled(IF r.live THEN searchDone(Client, CatalogSearch(r.query)) ELSE Client,
                      One(r))
    /\ UNCHANGED << Server, redirecting, History, Clock, LinkPage, tree >>

\* the search r fails
SearchFails ==
    /\ \E r \in BagToSet(net) :
           /\ r.type = "search"
           /\ Handled(IF r.live THEN searchFailed(Client) ELSE Client, One(r))
    /\ UNCHANGED << Server, redirecting, History, Clock, LinkPage, tree >>

\* a click on an entry the search lists
ResultClick ==
    /\ searchShown
    /\ \E n \in 1..Len(searchResults) :
           Handled(addEncyclopediaLink(Client, CardIndex(cards, currentDishCard),
                                       searchResults[n]), EmptyBag)
    /\ UNCHANGED << Server, redirecting, History, Clock, LinkPage, tree >>

\* Escape in the search field
SearchEscape ==
    /\ searchShown
    /\ Handled(hideSearch(Client), EmptyBag)
    /\ UNCHANGED << Server, redirecting, History, Clock, LinkPage, tree >>

\* a click on the remove button of a card's link chip
LinkRemoveClick ==
    /\ shown /\ pane = FindIndex("dishes")
    /\ \E i \in 1..Len(cards) :
           /\ cards[i].links # << >>
           /\ Handled(removeEncyclopediaLink(Client, i), EmptyBag)
    /\ UNCHANGED << Server, redirecting, History, Clock, LinkPage, tree >>

\* a click on a card's remove button; a card with data is removed only
\* when the user confirms, declining changes nothing
RemoveDishClick ==
    /\ shown /\ pane = FindIndex("dishes")
    /\ \E i \in 1..Len(cards) : \E confirmed \in BOOLEAN :
           Handled(removeDish(Client, i, confirmed), EmptyBag)
    /\ UNCHANGED << Server, redirecting, History, Clock, LinkPage, tree >>

\* the buttons updateNavigationButtons displays for navStep
NextVisible == navStep # LastIndex
BackVisible == navStep # 0
SkipVisible == ~StepAt(navStep).required /\ navStep # LastIndex
SubmitVisible == navStep = LastIndex

\* a click on the next button
NextClick ==
    /\ shown /\ NextVisible /\ ~nextDisabled
    /\ Handled(goToNextStep(Client), EmptyBag)
    /\ UNCHANGED << Server, redirecting, History, Clock, LinkPage, tree >>

BackClick ==
    /\ shown /\ BackVisible
    /\ Handled(goToPreviousStep(Client), EmptyBag)
    /\ UNCHANGED << Server, redirecting, History, Clock, LinkPage, tree >>

SkipClick ==
    /\ shown /\ SkipVisible
    /\ Handled(skipStep(Client), EmptyBag)
    /\ UNCHANGED << Server, redirecting, History, Clock, LinkPage, tree >>

\* a click on an edit button of the summary
EditClick ==
    /\ shown /\ pane = FindIndex("confirm")
    /\ \E t \in editButtons : Handled(goToStep(Client, t), EmptyBag)
    /\ UNCHANGED << Server, redirecting, History, Clock, LinkPage, tree >>

\* a click on the cancel button, or Escape
CloseClick ==
    /\ shown
    /\ Handled(closeModal(Client), EmptyBag)
    /\ UNCHANGED << Server, redirecting, History, Clock, LinkPage, tree >>

\* goToNextStep is called while the flow is open, whatever the buttons show
NextCall ==
    /\ shown
    /\ Handled(goToNextStep(Client), EmptyBag)
    /\ UNCHANGED << Server, redirecting, History, Clock, LinkPage, tree >>

SubmitClick ==
    /\ shown /\ SubmitVisible /\ ~submitDisabled
    /\ Handled(submitReview(Client), EmptyBag)
    /\ UNCHANGED << Server, redirecting, History, Clock, LinkPage, tree >>

\* the keydown listener of the modal on Ctrl+Enter: the next step if the
\* next button is displayed and enabled, else the submission if the submit
\* button is
ctrlEnter(m) ==
    IF m.navStep # LastIndex /\ ~m.nextDisabled THEN goToNextStep(m)
    ELSE IF m.navStep = LastIndex /\ ~m.submitDisabled THEN submitReview(m)
    ELSE m

CtrlEnter ==
    /\ shown
    /\ Handled(ctrlEnter(Client), EmptyBag)
    /\ UNCHANGED << Server, redirecting, History, Clock, LinkPage, tree >>

\* the autosave interval fires
Tick ==
    /\ timers > 0
    /\ Handled(autosaveTick(Client), EmptyBag)
    /\ UNCHANGED << Server, redirecting, History, Clock, LinkPage, tree >>

\* the save r is stored and answered with success
SaveStored(r, confirmed) ==
    /\ r.type = "save"
    /\ SavedId(r) <= MaxDraftId
    /\ drafts' = StoreSave(drafts, SavedId(r), r.step, r.data, r.session)
    /\ nextId' = IF r.draft_id = NullId THEN nextId + 1 ELSE nextId
    /\ IF r.live
       THEN Handled(Continue(saveDraftDone(Client, TRUE, SavedId(r)), r, confirmed),
                    One(r))
       ELSE Handled(Client, One(r))
    /\ savedId' = IF r.live THEN SavedId(r) ELSE savedId
    /\ mintedOnce' =
           (mintedOnce \/ (r.live /\ r.draft_id = NullId /\ r.session = sessionNo))
    /\ UNCHANGED << redirecting, sessionNo, ended, loaded, reviews, issued, opener, Clock, LinkPage, tree >>

SaveSucceeds ==
    \E r \in BagToSet(net) : \E confirmed \in BOOLEAN : SaveStored(r, confirmed)

\* the save r is answered with a failure, or its fetch fails
SaveRefused(r, confirmed) ==
    /\ r.type = "save"
    /\ IF r.live
       THEN Handled(Continue(saveDraftDone(Client, FALSE, NullId), r, confirmed),
                    One(r))
       ELSE Handled(Client, One(r))
    /\ UNCHANGED << Server, redirecting, History, Clock, LinkPage, tree >>

SaveFails ==
    \E r \in BagToSet(net) : \E confirmed \in BOOLEAN : SaveRefused(r, confirmed)

DeleteSucceeds ==
    \E r \in BagToSet(net) :
        /\ r.type = "delete"
        /\ drafts' = StoreWithout(drafts, r.draft_id)
        /\ Handled(IF r.live THEN deleteDraftDone(Client, TRUE) ELSE Client, One(r))
        /\ ended' = ended \cup {drafts[i].owner : i \in {j \in 1..Len(drafts) :
                                                             drafts[j].id = r.draft_id}}
        /\ UNCHANGED << nextId, redirecting, sessionNo, savedId, mintedOnce, loaded, reviews, issued, opener, Clock, LinkPage, tree >>

DeleteFails ==
    \E r \in BagToSet(net) :
        /\ r.type = "delete"
        /\ Handled(IF r.live THEN deleteDraftDone(Client, FALSE) ELSE Client, One(r))
        /\ UNCHANGED << Server, redirecting, History, Clock, LinkPage, tree >>

\* the review is created and its draft discarded; the client resets and
\* schedules the redirect
SubmitAccepted(r) ==
    /\ r.type = "submit"
    /\ r.live
    /\ drafts' = StoreWithout(drafts, r.draft_id)
    /\ Handled(submitReviewDone(Client, Accepted), One(r))
    /\ redirecting' = TRUE
    /\ ended' = ended \cup {r.session}
    /\ reviews' = reviews (+) One(r.session)
    /\ UNCHANGED << nextId, sessionNo, savedId, mintedOnce, loaded, issued, opener, Clock, LinkPage, tree >>

SubmitSucceeds == \E r \in BagToSet(net) : SubmitAccepted(r)

\* the submission r is answered with result, a failure
SubmitAnswered(r, result) ==
    /\ r.type = "submit"
    /\ r.live
    /\ Handled(submitReviewDone(Client, result), One(r))
    /\ UNCHANGED << Server, redirecting, History, Clock, LinkPage, tree >>

\* the failures of a submission
SubmitFailures == {Rejected(e) : e \in SubmitErrors} \cup {Refused, Unreachable}

\* the endpoint answers with errors, or the fetch fails
SubmitFails ==
    \E r \in BagToSet(net) : \E result \in SubmitFailures : SubmitAnswered(r, result)

\* the client as the page's script leaves it when the document has loaded
InitialClient ==
    [currentStep |-> 0, formData |-> EmptyFormData, hasUnsavedChanges |-> FALSE,
     dishCounter |-> 0, draftId |-> NullId, dirty |-> FALSE, autosaveOn |-> FALSE,
     timers |-> 0,
     shown |-> FALSE, pane |-> 0, navStep |-> 0, editButtons |-> {},
     errorShown |-> FALSE, errorText |-> "",
     submitDisabled |-> FALSE, nextDisabled |-> FALSE,
     nameInput |-> "",
     dateInput |-> "", partyInput |-> "", dateErrorShown |-> FALSE,
     summary |-> << >>, cards |-> << >>,
     currentDishCard |-> NoCard, searchShown |-> FALSE, searchInput |-> "",
     searchResults |-> << >>, searchStatus |-> "", searchTimeout |-> << >>,
     ex |-> FALSE, valid |-> TRUE, out |-> << >>, session |-> 0]

RECURSIVE Orphaned(_)
\* the requests of a page that was replaced: their responses reach nobody,
\* the server still handles the saves and deletes
Orphaned(q) ==
    IF q = << >> THEN EmptyBag
    ELSE (IF Head(q).type \in {"save", "delete"}
          THEN One([Head(q) EXCEPT !.live = FALSE, !.k = "", !.target = 0])
          ELSE EmptyBag) (+) Orphaned(Tail(q))

RECURSIVE SeqOfBag(_)
SeqOfBag(b) ==
    IF b = EmptyBag THEN << >>
    ELSE LET r == CHOOSE x \in BagToSet(b) : TRUE IN << r >> \o SeqOfBag(b (-) One(r))

\* window.location is assigned (or reloaded) after a successful submission
PageReload ==
    /\ redirecting
    /\ redirecting' = FALSE
    /\ Becomes(InitialClient)
    /\ net' = Orphaned(SeqOfBag(net))
    /\ savedId' = NullId
    /\ mintedOnce' = FALSE
    /\ UNCHANGED << Server, sendsLeft, sessionNo, ended, loaded, reviews, issued, opener, Clock, LinkPage, tree >>

(***************************************************************************)
(* review_dish_link.js: the page that lists the dishes of a review. The    *)
(* badge of an unlinked dish opens the link modal, where the user searches *)
(* the encyclopedia and picks an entry, or creates an entry; the badge of  *)
(* a linked dish asks whether to unlink it. The handlers are operators on  *)
(* the state l of this page, a record of its variables with the fields ex, *)
(* out and session of the handlers above. The page shows one dish; the     *)
(* section of suggested matches is not part of the state.                  *)
(***************************************************************************)
ReviewModalPage ==
    << clientVars, net, Server, redirecting, sendsLeft, History, Clock >>

LinkClient ==
    [linkModalShown |-> linkModalShown, createFormShown |-> createFormShown,
     createFormError |-> createFormError,
     saveAndLinkDisabled |-> saveAndLinkDisabled,
     badgeEncyclopediaId |-> badgeEncyclopediaId,
     badgeHandlers |-> badgeHandlers, badgeDisabled |-> badgeDisabled,
     searchInput |-> linkSearch.searchInput,
     searchResults |-> linkSearch.searchResults,
     searchStatus |-> linkSearch.searchStatus,
     searchTimeout |-> linkSearch.searchTimeout,
     ex |-> FALSE, out |-> << >>, session |-> 0]

\* the page's state after a handler: l's fields become the variables
LinkBecomes(l) ==
    /\ linkModalShown' = l.linkModalShown
    /\ createFormShown' = l.createFormShown
    /\ createFormError' = l.createFormError
    /\ saveAndLinkDisabled' = l.saveAndLinkDisabled
    /\ badgeEncyclopediaId' = l.badgeEncyclopediaId
    /\ badgeHandlers' = l.badgeHandlers
    /\ badgeDisabled' = l.badgeDisabled
    /\ linkSearch' = [searchInput |-> l.searchInput,
                      searchResults |-> l.searchResults,
                      searchStatus |-> l.searchStatus,
                      searchTimeout |-> l.searchTimeout]

\* a handler of the page ran and left it in l; the requests in answered
\* got their response, the requests the handler sent await theirs
LinkHandled(l, answered) ==
    LET n == (linkNet (-) answered) (+) BagOfSeq(l.out) IN
    /\ BagCardinality(n) <= MaxInFlight
    /\ Len(l.out) <= linkSendsLeft
    /\ linkNet' = n
    /\ linkSendsLeft' = linkSendsLeft - Len(l.out)
    /\ LinkBecomes(l)
    /\ UNCHANGED << ReviewModalPage, tree >>

\* a request of the page awaiting its response: a search with its query, a
\* link with the id of the entry, an unlink, a creation with the name
LinkPageRequest(type, arg) == [type |-> type, arg |-> arg, session |-> 0]

\* addEventListener on the badge if it has the class of the unlinked
\* badges: the listeners it has are kept
attachUnlinkedHandlers(l) ==
    IF l.badgeEncyclopediaId = ""
    THEN [l EXCEPT !.badgeHandlers.link = l.badgeHandlers.link + 1]
    ELSE l

\* addEventListener on the badge if it has the class of the linked badges
attachLinkedHandlers(l) ==
    IF l.badgeEncyclopediaId # ""
    THEN [l EXCEPT !.badgeHandlers.unlink = l.badgeHandlers.unlink + 1]
    ELSE l

resetToSearchView(l) == [l EXCEPT !.createFormShown = FALSE]

showCreateForm(l) == [l EXCEPT !.createFormShown = TRUE, !.createFormError = ""]

\* the click listener attachUnlinkedHandlers adds: the search is cleared
\* and the link modal is shown
unlinkedBadgeListener(l) ==
    [resetToSearchView(l) EXCEPT !.searchInput = "", !.searchResults = << >>,
                                 !.searchStatus = "", !.linkModalShown = TRUE]

\* unlinkDish up to its fetch
unlinkDish(l) ==
    Send([l EXCEPT !.badgeDisabled = TRUE], LinkPageRequest("unlink", ""))

\* unlinkDish: the then and the catch of its fetch
unlinkDishDone(l, success) ==
    IF success
    THEN attachUnlinkedHandlers([l EXCEPT !.badgeEncyclopediaId = "",
                                          !.badgeDisabled = FALSE])
    ELSE [l EXCEPT !.badgeDisabled = FALSE]

\* the click listener attachLinkedHandlers adds: the user answers confirm()
linkedBadgeListener(l, confirmed) == IF confirmed THEN unlinkDish(l) ELSE l

\* linkDish up to its fetch
linkDish(l, entryId) ==
    Send([l EXCEPT !.badgeDisabled = TRUE], LinkPageRequest("link", entryId))

\* linkDish: the then and the catch of its fetch
linkDishDone(l, entryId, success) ==
    IF success
    THEN [attachLinkedHandlers([l EXCEPT !.badgeEncyclopediaId = entryId,
                                         !.badgeDisabled = FALSE])
          EXCEPT !.linkModalShown = FALSE]
    ELSE [l EXCEPT !.badgeDisabled = FALSE]

RECURSIVE linkedBadgeListeners(_, _)
\* the listeners attachLinkedHandlers added run one after the other, each
\* with the user's answer to its confirm()
linkedBadgeListeners(l, answers) ==
    IF answers = << >> THEN l
    ELSE linkedBadgeListeners(linkedBadgeListener(l, Head(answers)), Tail(answers))

\* a click on the badge runs every listener the badge has
badgeClick(l, answers) ==
    linkedBadgeListeners(IF l.badgeHandlers.link > 0 THEN unlinkedBadgeListener(l)
                         ELSE l,
                         answers)

\* performSearch up to its fetch
performSearch(l, query) ==
    Send([l EXCEPT !.searchTimeout = Tail(l.searchTimeout)],
         LinkPageRequest("search", query))

\* the click listener of saveAndLinkBtn up to its fetch
saveAndLink(l, name, description) ==
    IF Trim(name) = "" \/ Trim(description) = ""
    THEN [l EXCEPT !.createFormError = "Name and Description are required"]
    ELSE Send([l EXCEPT !.createFormError = "", !.saveAndLinkDisabled = TRUE],
              LinkPageRequest("create", Trim(name)))

\* the then of the creation's fetch with data.success
saveAndLinkDone(l, entryId) ==
    [attachLinkedHandlers([l EXCEPT !.saveAndLinkDisabled = FALSE,
                                    !.badgeEncyclopediaId = entryId])
     EXCEPT !.linkModalShown = FALSE]

\* the then of the creation's fetch without data.success, and its catch
saveAndLinkFailed(l, refused, text) ==
    [l EXCEPT !.saveAndLinkDisabled = FALSE,
              !.createFormError = IF refused /\ text # "" THEN text
                                  ELSE "Failed to create entry"]

\* a click on the badge of the dish; a disabled button takes no click, and
\* the link modal covers the page while it is shown
BadgeClick ==
    /\ ~linkModalShown /\ ~badgeDisabled
    /\ \E answers \in [1..badgeHandlers.unlink -> BOOLEAN] :
           LinkHandled(badgeClick(LinkClient, answers), EmptyBag)

\* showCreateForm
ShowCreateFormClick ==
    /\ linkModalShown /\ ~createFormShown
    /\ LinkHandled(showCreateForm(LinkClient), EmptyBag)

\* resetToSearchView
BackToSearchClick ==
    /\ linkModalShown /\ createFormShown
    /\ LinkHandled(resetToSearchView(LinkClient), EmptyBag)

\* a click on saveAndLinkBtn, up to its fetch
SaveAndLinkClick ==
    /\ linkModalShown /\ createFormShown /\ ~saveAndLinkDisabled
    /\ \E name \in EntryNames : \E description \in EntryDescriptions :
           LinkHandled(saveAndLink(LinkClient, name, description), EmptyBag)

\* the creation is answered with success: the badge is linked, the modal
\* is hidden
CreateSucceeds ==
    \E r \in BagToSet(linkNet) :
        /\ r.type = "create"
        /\ LinkHandled(saveAndLinkDone(LinkClient, CreatedId), One(r))

\* the creation is refused, with an error text or without (refused), or the
\* fetch fails
CreateAnswered(r, refused, text) ==
    /\ r.type = "create"
    /\ LinkHandled(saveAndLinkFailed(LinkClient, refused, text), One(r))

CreateFails ==
    \E r \in BagToSet(linkNet) : \E refused \in BOOLEAN :
        \E text \in {"", "An entry with this name exists."} :
            CreateAnswered(r, refused, text)

\* the user types into the search field of the link modal
LinkSearchType ==
    /\ linkModalShown /\ ~createFormShown
    /\ \E v \in SearchInputs \ {linkSearch.searchInput} :
           LinkHandled(searchInputListener(LinkClient, v), EmptyBag)

\* the timer of the link modal's search field fires
LinkSearchTimerFires ==
    /\ linkSearch.searchTimeout # << >>
    /\ LinkHandled(performSearch(LinkClient, linkSearch.searchTimeout[1]), EmptyBag)

\* the search r of the link modal is answered, or fails
LinkSearchAnswered ==
    \E r \in BagToSet(linkNet) : \E failed \in BOOLEAN :
        /\ r.type = "search"
        /\ LinkHandled(IF failed THEN searchFailed(LinkClient)
                       ELSE searchDone(LinkClient, CatalogSearch(r.arg)),
                       One(r))

\* a click on an entry the link modal lists
LinkResultClick ==
    /\ linkModalShown /\ ~createFormShown
    /\ \E n \in 1..Len(linkSearch.searchResults) :
           LinkHandled(linkDish(LinkClient, linkSearch.searchResults[n].id), EmptyBag)

\* the link r is answered
LinkAnswered ==
    \E r \in BagToSet(linkNet) : \E success \in BOOLEAN :
        /\ r.type = "link"
        /\ LinkHandled(linkDishDone(LinkClient, r.arg, success), One(r))

\* the unlink r is answered
UnlinkAnswered ==
    \E r \in BagToSet(linkNet) : \E success \in BOOLEAN :
        /\ r.type = "unlink"
        /\ LinkHandled(unlinkDishDone(LinkClient, success), One(r))

\* Escape in the search field of the link modal
LinkModalEscape ==
    /\ linkModalShown /\ ~createFormShown
    /\ LinkHandled([LinkClient EXCEPT !.linkModalShown = FALSE], EmptyBag)

(***************************************************************************)
(* encyclopedia_tree.js: the page of the encyclopedia with the main tree   *)
(* and the sidebar tree. The handlers are operators on the state t of the  *)
(* page, the record held by the variable tree: expandedEntries (TreeState),*)
(* storage (the entry of localStorage with the expanded entries), sidebar  *)
(* and main (the entries displayed expanded in the two trees), hidden (the *)
(* entries of the sidebar hidden by the filter), isFiltering,              *)
(* originalExpandedState, debounceTimer (the queries of the timers         *)
(* pending) and searchInput. Names and queries are sequences of            *)
(* characters.                                                             *)
(***************************************************************************)
\* the entries both trees show: Pastry, its child Tart, and Tart's child Flan
TreeEntries == {"1", "2", "3"}
TreeParent == [e \in {"2", "3"} |-> IF e = "2" THEN "1" ELSE "2"]
TreeNames ==
    [e \in TreeEntries |->
        CASE e = "1" -> << "P", "a", "s", "t", "r", "y" >>
          [] e = "2" -> << "T", "a", "r", "t" >>
          [] e = "3" -> << "F", "l", "a", "n" >>]
\* the entry of the page shown, "" on the page of the whole tree
NoEntry == ""
\* what the user types into the search field of the sidebar
TreeInputs == {<< >>, << " " >>, << "t", "a" >>, << "F", "l" >>, << "x" >>}

\* toLowerCase, for the characters of this model
ToLowerCase(text) ==
    [i \in 1..Len(text) |->
        CASE text[i] = "P" -> "p"
          [] text[i] = "T" -> "t"
          [] text[i] = "F" -> "f"
          [] OTHER -> text[i]]

RECURSIVE TrimText(_)
\* trim
TrimText(text) ==
    IF text = << >> THEN << >>
    ELSE IF Head(text) = " " THEN TrimText(Tail(text))
    ELSE IF text[Len(text)] = " " THEN TrimText(SubSeq(text, 1, Len(text) - 1))
    ELSE text

\* text.includes(part)
Includes(text, part) ==
    \E i \in 1..(Len(text) - Len(part) + 1) : SubSeq(text, i, i + Len(part) - 1) = part

RECURSIVE TreeDescendants(_)
\* entry.querySelectorAll('.sidebar-tree-entry'): the entries below an entry
TreeDescendants(e) ==
    LET children == {c \in DOMAIN TreeParent : TreeParent[c] = e} IN
    children \cup UNION {TreeDescendants(c) : c \in children}

\* the entries above an entry
TreeAncestors(e) == {a \in TreeEntries : e \in TreeDescendants(a)}

saveExpandedEntries(t) == [t EXCEPT !.storage = t.expandedEntries]

\* the node of the entry is displayed expanded or collapsed, in the sidebar
\* or in the main tree
updateTreeNode(t, entryId, isExpanded, isSidebar) ==
    IF entryId \notin TreeEntries THEN t
    ELSE IF isSidebar
    THEN [t EXCEPT !.sidebar = IF isExpanded THEN t.sidebar \cup {entryId}
                               ELSE t.sidebar \ {entryId}]
    ELSE [t EXCEPT !.main = IF isExpanded THEN t.main \cup {entryId}
                            ELSE t.main \ {entryId}]

\* TreeSync.toggleEntry, with TreeState.toggleEntry
toggleEntry(t, entryId) ==
    LET t1 == saveExpandedEntries(
                  [t EXCEPT !.expandedEntries =
                                IF entryId \in t.expandedEntries
                                THEN t.expandedEntries \ {entryId}
                                ELSE t.expandedEntries \cup {entryId}])
        isExpanded == entryId \in t1.expandedEntries
    IN  updateTreeNode(updateTreeNode(t1, entryId, isExpanded, FALSE),
                       entryId, isExpanded, TRUE)

\* TreeSync.restoreState: the nodes of the expanded entries are expanded
restoreState(t) ==
    [t EXCEPT !.sidebar = t.sidebar \cup (t.expandedEntries \cap TreeEntries),
              !.main = t.main \cup (t.expandedEntries \cap TreeEntries)]

\* TreeSync.expandAll, with TreeState.expandAll: the entries of the main tree
expandAll(t) ==
    LET t1 == saveExpandedEntries(
                  [t EXCEPT !.expandedEntries = t.expandedEntries \cup TreeEntries])
    IN  [t1 EXCEPT !.sidebar = t1.sidebar \cup TreeEntries,
                   !.main = t1.main \cup TreeEntries]

\* TreeSync.collapseAll, with TreeState.collapseAll
collapseAll(t) ==
    LET t1 == saveExpandedEntries([t EXCEPT !.expandedEntries = {}])
    IN  [t1 EXCEPT !.sidebar = t1.sidebar \ TreeEntries,
                   !.main = t1.main \ TreeEntries]

\* CurrentEntryHighlighter.expandParents: the entries above the entry of
\* the page are expanded, in the state and in both trees
expandParents(t, current) ==
    IF current = NoEntry THEN t
    ELSE LET t1 == saveExpandedEntries(
                       [t EXCEPT !.expandedEntries =
                                     t.expandedEntries \cup TreeAncestors(current)])
         IN  [t1 EXCEPT !.sidebar = t1.sidebar \cup TreeAncestors(current),
                        !.main = t1.main \cup TreeAncestors(current)]

\* init: the state is loaded from the storage, the nodes are rendered
\* collapsed, restoreState and highlight run
TreeLoaded(stored, current) ==
    expandParents(
        restoreState([expandedEntries |-> stored, storage |-> stored,
                      sidebar |-> {}, main |-> {}, hidden |-> {},
                      isFiltering |-> FALSE, originalExpandedState |-> {},
                      debounceTimer |-> << >>, searchInput |-> << >>]),
        current)

\* handleSearchInput: the pending timer is cleared and one is set
handleSearchInput(t, query) ==
    [t EXCEPT !.searchInput = query,
              !.debounceTimer = Append(clearSearchTimeout(t.debounceTimer), query)]

hasMatchingDescendant(entry, matchingEntries) ==
    TreeDescendants(entry) \cap matchingEntries # {}

\* clearFilter: the field is emptied, every entry is shown, and after a
\* filter the nodes of the sidebar are displayed as originalExpandedState
\* says
clearFilter(t) ==
    LET t1 == [t EXCEPT !.searchInput = << >>, !.hidden = {}] IN
    IF t1.isFiltering
    THEN [t1 EXCEPT !.sidebar = t1.originalExpandedState \cap TreeEntries,
                    !.isFiltering = FALSE]
    ELSE t1

\* filterTree: the entries that match and the entries above them are
\* shown, the latter expanded in the sidebar
filterTree(t, query) ==
    IF query = << >> THEN clearFilter(t)
    ELSE LET t1 == IF ~t.isFiltering
                   THEN [t EXCEPT !.originalExpandedState = t.expandedEntries,
                                  !.isFiltering = TRUE]
                   ELSE t
             matchingEntries ==
                 {e \in TreeEntries :
                     Includes(ToLowerCase(TreeNames[e]), ToLowerCase(query))}
             above == {e \in TreeEntries : hasMatchingDescendant(e, matchingEntries)}
         IN  [t1 EXCEPT !.hidden = TreeEntries \ (matchingEntries \cup above),
                        !.sidebar = t1.sidebar \cup above]

\* the other two pages while the user works on this one
OtherPages == << ReviewModalPage, LinkPage >>

\* a click on the toggle of an entry, in the main tree or in the sidebar
TreeToggleClick ==
    /\ \E e \in TreeEntries : tree' = toggleEntry(tree, e)
    /\ UNCHANGED OtherPages

ExpandAllClick ==
    /\ tree' = expandAll(tree)
    /\ UNCHANGED OtherPages

CollapseAllClick ==
    /\ tree' = collapseAll(tree)
    /\ UNCHANGED OtherPages

\* the user types into the search field of the sidebar
TreeSearchType ==
    /\ \E v \in TreeInputs \ {tree.searchInput} : tree' = handleSearchInput(tree, v)
    /\ UNCHANGED OtherPages

\* the timer of the search field fires
TreeSearchTimerFires ==
    /\ tree.debounceTimer # << >>
    /\ tree' = filterTree([tree EXCEPT !.debounceTimer = Tail(tree.debounceTimer)],
                          TrimText(tree.debounceTimer[1]))
    /\ UNCHANGED OtherPages

\* a click on the clear button of the search field, or Escape in it
ClearFilterClick ==
    /\ tree' = clearFilter(tree)
    /\ UNCHANGED OtherPages

\* the page of encyclopedia_tree.js has loaded with nothing stored
TreePageLoaded == tree = TreeLoaded({}, NoEntry)

(***************************************************************************)
(* The drafts the store may hold when the page is loaded: what an earlier  *)
(* session of this page saved before it was closed, and a draft saved by   *)
(* an earlier version of the page at a step this version does not have.    *)
(***************************************************************************)
CommittedBasic ==
    [committed |-> TRUE, restaurantName |-> "Le Jardin", visitDate |-> Today,
     partySize |-> "1"]

TarteDish ==
    [name |-> "Tarte", rating |-> "50", notes |-> "", image |-> NoImage,
     encyclopedia_ids |-> << >>]

\* saved by goToNextStep on the location step
DraftAtLocation ==
    [id |-> 1, step |-> "location", owner |-> 0,
     data |-> [EmptyFormData EXCEPT !.basicInfo = CommittedBasic,
                                    !.location = [committed |-> TRUE, city |-> ""]]]

\* saved by the autosave timer on the dishes step, one dish entered
DraftAtDishes ==
    [id |-> 1, step |-> "dishes", owner |-> 0,
     data |-> [EmptyFormData EXCEPT !.basicInfo = CommittedBasic,
                                    !.rating = [committed |-> TRUE, overall |-> "50"],
                                    !.dishes = << TarteDish >>]]

\* a dish with notes, a rating, an image and a link, and one without
RichDish ==
    [name |-> "Tarte", rating |-> "80", notes |-> "crisp",
     image |-> "data:image/png;base64,AAAA", encyclopedia_ids |-> << TartEntry >>]

SoupeDish ==
    [name |-> "Soupe", rating |-> "50", notes |-> "", image |-> NoImage,
     encyclopedia_ids |-> << >>]

\* saved by the autosave timer on the dishes step, two dishes entered
DraftTwoDishes ==
    [id |-> 1, step |-> "dishes", owner |-> 0,
     data |-> [EmptyFormData EXCEPT !.basicInfo = CommittedBasic,
                                    !.location = [committed |-> TRUE, city |-> ""],
                                    !.rating = [committed |-> TRUE, overall |-> "50"],
                                    !.dishes = << RichDish, SoupeDish >>]]

\* saved by the autosave timer on the confirm step
DraftAtConfirm ==
    [id |-> 1, step |-> "confirm", owner |-> 0,
     data |-> [EmptyFormData EXCEPT !.basicInfo = CommittedBasic,
                                    !.location = [committed |-> TRUE, city |-> ""],
                                    !.rating = [committed |-> TRUE, overall |-> "50"],
                                    !.dishes = << TarteDish >>]]

DraftAtUnknownStep ==
    [id |-> 1, step |-> "photos", owner |-> 0,
     data |-> [EmptyFormData EXCEPT !.basicInfo = CommittedBasic]]

StoredDrafts == {DraftAtLocation, DraftAtDishes, DraftAtUnknownStep}

\* the page of review_dish_link.js has loaded: the badge of the dish is
\* unlinked, the link modal is closed
LinkPageLoadedWith(entryId) ==
    /\ linkModalShown = FALSE
    /\ createFormShown = FALSE
    /\ createFormError = ""
    /\ saveAndLinkDisabled = FALSE
    /\ badgeEncyclopediaId = entryId
    /\ badgeHandlers = [link |-> IF entryId = "" THEN 1 ELSE 0,
                        unlink |-> IF entryId = "" THEN 0 ELSE 1]
    /\ badgeDisabled = FALSE
    /\ linkSearch = [searchInput |-> "", searchResults |-> << >>,
                     searchStatus |-> "", searchTimeout |-> << >>]
    /\ linkNet = EmptyBag
    /\ linkSendsLeft = MaxDishLinkSends

LinkPageLoaded == LinkPageLoadedWith("")

\* the page has loaded, the flow is closed, nothing was sent; the client's
\* clock is offset hours ahead of UTC, where it is hour o'clock
ReviewPageLoadedIn(offset, hour) ==
    /\ currentStep = InitialClient.currentStep
    /\ formData = InitialClient.formData
    /\ hasUnsavedChanges = InitialClient.hasUnsavedChanges
    /\ dishCounter = InitialClient.dishCounter
    /\ draftId = InitialClient.draftId
    /\ dirty = InitialClient.dirty
    /\ autosaveOn = InitialClient.autosaveOn
    /\ timers = InitialClient.timers
    /\ shown = InitialClient.shown
    /\ pane = InitialClient.pane
    /\ navStep = InitialClient.navStep
    /\ editButtons = InitialClient.editButtons
    /\ errorShown = InitialClient.errorShown
    /\ errorText = InitialClient.errorText
    /\ submitDisabled = InitialClient.submitDisabled
    /\ nextDisabled = InitialClient.nextDisabled
    /\ nameInput = InitialClient.nameInput
    /\ dateInput = InitialClient.dateInput
    /\ partyInput = InitialClient.partyInput
    /\ dateErrorShown = InitialClient.dateErrorShown
    /\ summary = InitialClient.summary
    /\ cards = InitialClient.cards
    /\ currentDishCard = InitialClient.currentDishCard
    /\ searchShown = InitialClient.searchShown
    /\ searchInput = InitialClient.searchInput
    /\ searchResults = InitialClient.searchResults
    /\ searchStatus = InitialClient.searchStatus
    /\ searchTimeout = InitialClient.searchTimeout
    /\ net = EmptyBag
    /\ issued = << >>
    /\ opener = NoCard
    /\ utcOffset = offset
    /\ utcHour = hour
    /\ redirecting = FALSE
    /\ sessionNo = 0
    /\ savedId = NullId
    /\ mintedOnce = FALSE
    /\ ended = {}
    /\ loaded = drafts
    /\ reviews = EmptyBag

\* both pages have loaded; the dish of review_dish_link.js is unlinked
PageLoadedIn(offset, hour) ==
    /\ ReviewPageLoadedIn(offset, hour)
    /\ LinkPageLoaded
    /\ TreePageLoaded

\* the page has loaded on a client whose clock shows UTC, at noon
PageLoaded == PageLoadedIn(0, 12)

Init ==
    /\ drafts \in {<< >>} \cup {<< d >> : d \in StoredDrafts}
    /\ PageLoaded
    /\ nextId = Len(drafts) + 1
    /\ sendsLeft = MaxSends

Next ==
    \/ OpenClick \/ RetrieveResponse
    \/ TypeName \/ AddDishClick \/ TypeDishName \/ RemoveDishClick
    \/ NextClick \/ BackClick \/ SkipClick \/ EditClick \/ CloseClick \/ SubmitClick
    \/ CtrlEnter \/ Tick
    \/ SaveSucceeds \/ SaveFails \/ DeleteSucceeds \/ DeleteFails
    \/ SubmitSucceeds \/ SubmitFails \/ PageReload

Spec == Init /\ [][Next]_vars

\* the flow with its operations open to any caller, not only to the buttons
NextApi == Next \/ NextCall

SpecApi == Init /\ [][NextApi]_vars

(***************************************************************************)
(* Properties of the step flow.                                            *)
(***************************************************************************)
\* C1: while the flow is open the current step index refers to one of the
\* five steps, whatever the interleaving of navigation events and whatever
\* the step id of a resumed draft
C1_StepIndexInRange == shown => InRange(currentStep)

HasNamedDish(ds) == \E i \in 1..Len(ds) : ds[i].name # ""

\* C2: when the confirm step is the current step, and when a submission is
\* issued, the session's dishes hold at least one entry with a name
C2_ConfirmHasNamedDish ==
    /\ (shown /\ currentStep = FindIndex("confirm")) => HasNamedDish(formData.dishes)
    /\ \A r \in BagToSet(net) : r.type = "submit" => HasNamedDish(r.data.dishes)

\* goToNextStep is about to be called on a required step whose validator fails
OnInvalidRequiredStep ==
    /\ shown
    /\ InRange(currentStep) /\ currentStep < LastIndex
    /\ StepAt(currentStep).required
    /\ ~validateCurrentStep(Client).valid

\* C3: goToNextStep called on a required step whose validator fails leaves
\* the step index unchanged, sends no request, shows the inline error and
\* throws nothing; the flow stays open and the store is not touched
C3_RefusedNextChangesNothing ==
    [][(OnInvalidRequiredStep /\ NextCall)
         => /\ currentStep' = currentStep
            /\ net' = net
            /\ sendsLeft' = sendsLeft
            /\ drafts' = drafts
            /\ errorShown'
            /\ shown'
            /\ ~goToNextStep(Client).ex]_vars

\* C3's case has happened: on the first step of a fresh session, with no
\* restaurant name, the error is displayed and only the retrieval was sent
C3_RefusedNextReached ==
    /\ shown /\ errorShown
    /\ currentStep = FindIndex("basic-info")
    /\ ~ValidBasicInfo(Client)
    /\ net = EmptyBag
    /\ sendsLeft = MaxSends - 1

\* C4: when the response of a successful save arrives after the session data
\* was changed since the request was sent (the request is one of the open
\* session, its data are no longer the session's, the dirty flag is set),
\* the dirty flag stays true
C4_StaleSaveKeepsDirty ==
    [][\A r \in BagToSet(net) :
          (/\ r.live /\ r.k = "tick" /\ r.session = sessionNo
           /\ shown /\ autosaveOn /\ dirty
           /\ r.data # formData
           /\ SaveStored(r, TRUE))
          => dirty']_vars

\* C6: the store never holds more than one draft of the same session, also
\* when a timer tick and a navigation flush are both sent before an id is
\* known
C6_OneDraftPerSession ==
    \A i, j \in 1..Len(drafts) : drafts[i].owner = drafts[j].owner => i = j

\* the user has entered something into the open flow
Entered == nameInput # "" \/ formData # EmptyFormData \/ cards # << >>

\* closeModal resets the session: at once, or when its save is answered
CloseResets ==
    \/ CloseClick
    \/ \E r \in BagToSet(net) : \E confirmed \in BOOLEAN :
           r.k = "close" /\ (SaveStored(r, confirmed) \/ SaveRefused(r, confirmed))

\* C8: when closeModal has reset the session, the store holds a draft with
\* the data the user had entered, the current step's fields included
C8_CloseLeavesDraft ==
    [][(shown /\ ~shown' /\ Entered /\ CloseResets)
         => \E i \in 1..Len(drafts') :
                drafts'[i].data = saveCurrentStepData(Client).formData]_vars

\* C9: when the user accepts the offer to resume, the restored step, fields
\* and dishes equal those of the retrieved draft
C9_ResumeRestoresDraft ==
    [][\A r \in BagToSet(net) :
          (/\ drafts # << >>
           /\ FindIndex(StoreLatest(drafts).step) # -1
           /\ RetrieveAnswered(r, FALSE, TRUE))
          => /\ currentStep' = FindIndex(StoreLatest(drafts).step)
             /\ formData' = StoreLatest(drafts).data
             /\ nameInput' = StoreLatest(drafts).data.basicInfo.restaurantName
             /\ DishesOf(cards') = StoreLatest(drafts).data.dishes]_vars

\* C10: right after an accepted resume the draft manager's dirty flag is
\* false, so that the first timer tick sends no save
C10_ResumeLeavesClean ==
    [][\A r \in BagToSet(net) :
          (drafts # << >> /\ RetrieveAnswered(r, FALSE, TRUE)) => ~dirty']_vars

(***************************************************************************)
(* The discard scenario: a draft is stored, the user opens the flow,       *)
(* declines the offer, and works on; the flow may be opened and closed     *)
(* again while the deletes are on their way.                               *)
(***************************************************************************)
InitDiscard ==
    /\ drafts = << DraftAtLocation >>
    /\ PageLoaded
    /\ nextId = Len(drafts) + 1
    /\ sendsLeft = MaxDiscardSends

NextDiscard ==
    \/ OpenClick \/ RetrieveResponse \/ TypeName \/ NextClick \/ CloseClick
    \/ SaveSucceeds \/ DeleteSucceeds

SpecDiscard == InitDiscard /\ [][NextDiscard]_vars

\* the save requests this step sends
NewSaves ==
    {r \in BagToSet(net') : r.type = "save" /\ CopiesIn(r, net') > CopiesIn(r, net)}

\* C7: once a save sent without an id has succeeded in the session, every
\* save sent afterwards carries the id the most recent successful save
\* returned
C7_SavesCarryAdoptedId ==
    [][mintedOnce => \A r \in NewSaves : r.draft_id = savedId]_vars

(***************************************************************************)
(* The autosave scenario: a draft saved on the dishes step is resumed and  *)
(* its dish is edited while the timer ticks. The timer fires whenever it   *)
(* may (the interval is never cleared while the flow is open), and a save  *)
(* that is tried again and again succeeds in the end.                      *)
(***************************************************************************)
InitLive ==
    /\ drafts = << DraftAtDishes >>
    /\ PageLoaded
    /\ nextId = Len(drafts) + 1
    /\ sendsLeft = MaxLiveSends

NextLive ==
    \/ OpenClick \/ RetrieveResponse \/ TypeDishName \/ Tick
    \/ SaveSucceeds \/ SaveFails

SpecLive ==
    InitLive /\ [][NextLive]_vars /\ WF_vars(Tick) /\ SF_vars(SaveSucceeds)

\* the store holds a draft with the session data as it is in memory
InSync == \E i \in 1..Len(drafts) : drafts[i].data = formData

\* the flow is open with session data the store does not hold, and the page
\* may still send
Unsaved ==
    /\ shown /\ autosaveOn
    /\ formData # EmptyFormData
    /\ ~InSync
    /\ sendsLeft > 0

\* C5: with the timer ticking and saves succeeding in the end, session data
\* that the store does not hold is eventually stored
C5_EditsReachStore == Unsaved ~> ~Unsaved

(***************************************************************************)
(* Properties of the start of a session.                                   *)
(***************************************************************************)
\* C11: when openModal starts a fresh session (no draft was found, the
\* retrieval failed, or the user declined the offer), the delete of a
\* declined draft is sent, the session is empty at the first step, and the
\* draft manager holds no draft id
C11_FreshSessionHasNoId ==
    [][\A r \in BagToSet(net) : \A failed, accepted \in BOOLEAN :
          (/\ RetrieveAnswered(r, failed, accepted)
           /\ ~(~failed /\ drafts # << >> /\ accepted))
          => /\ shown'
             /\ currentStep' = 0
             /\ formData' = EmptyFormData
             /\ draftId' = NullId
             /\ (~failed /\ drafts # << >>)
                  => \E d \in BagToSet(net') :
                         d.type = "delete" /\ d.draft_id = StoreLatest(drafts).id]_vars

(***************************************************************************)
(* The dish editor scenario: a draft saved on the location step is         *)
(* resumed, the user walks on to the dishes step and edits the dishes:     *)
(* cards are added, removed and moved, their fields, image and link are    *)
(* set and cleared.                                                        *)
(***************************************************************************)
InitEditor ==
    /\ drafts = << DraftAtLocation >>
    /\ PageLoaded
    /\ nextId = Len(drafts) + 1
    /\ sendsLeft = MaxEditorSends

AddEditorDish == AddDishUpTo(MaxEditorDishes)

TypeEditorDishName == TypeDishNameFrom(EditorDishNames)

\* the operations of the dish editor
EditorClick ==
    \/ AddEditorDish \/ RemoveDishClick \/ MoveUpClick \/ MoveDownClick
    \/ TypeEditorDishName \/ TypeDishNotes \/ SlideDishRating
    \/ ImageChosen \/ RemoveImageClick \/ LinkChosen \/ LinkRemoveClick

NextEditor ==
    \/ OpenClick \/ RetrieveResponse
    \/ AddEditorDish \/ RemoveDishClick \/ MoveUpClick \/ MoveDownClick
    \/ TypeEditorDishName \/ TypeDishNotes \/ SlideDishRating
    \/ ImageChosen \/ RemoveImageClick \/ LinkChosen \/ LinkRemoveClick
    \/ BackClick \/ NextClick \/ SaveSucceeds

SpecEditor == InitEditor /\ [][NextEditor]_vars

\* the entries the editor shows, in the order it shows them, as dishes
VisibleDishes == [i \in 1..Len(cards) |-> DishOfCard(cards[i])]

\* C20: after an add, remove, move up or move down (and after every other
\* operation of the dish editor) the session's dishes are the visible
\* entries whose trimmed name is not empty, in visible order
C20_DishesAreVisibleNamed ==
    [][EditorClick
         => formData'.dishes = SelectSeq(VisibleDishes', LAMBDA d : d.name # "")]_vars

\* C20's case has happened: two named cards that differ in their notes
\* stand in the reverse of the order they were created in, and the dishes
\* are the two in the order shown
C20_ReorderedReached ==
    /\ shown /\ pane = FindIndex("dishes")
    /\ Len(cards) = 2
    /\ cards[1].id > cards[2].id
    /\ Trim(cards[1].name) # "" /\ Trim(cards[2].name) # ""
    /\ cards[1].notes # cards[2].notes
    /\ Len(formData.dishes) = 2
    /\ formData.dishes[1].notes = cards[1].notes

\* an operation of the user that commits a step's fields or edits the dishes
SessionEdit == EditorClick \/ BackClick \/ NextClick

\* C19: an operation that changes the session's fields or dishes (a commit
\* of the step's fields by the navigation, an operation of the dish editor)
\* leaves both dirty flags set in the step that makes the change
C19_ChangeSetsDirty ==
    [][(SessionEdit /\ formData' # formData) => (dirty' /\ hasUnsavedChanges')]_vars

\* C19's case has happened: the rating step's fields were committed by the
\* next button, and on the dishes step a dish was given an image and a
\* link; the draft manager's flag is set
C19_EditedReached ==
    /\ shown /\ pane = FindIndex("dishes")
    /\ formData.rating.committed
    /\ \E i \in 1..Len(formData.dishes) :
           /\ formData.dishes[i].image # NoImage
           /\ formData.dishes[i].encyclopedia_ids # << >>
    /\ dirty

(***************************************************************************)
(* The resume scenario: a draft saved on the dishes step is resumed and    *)
(* saved again without an edit, by the timer or by closing the flow, and   *)
(* resumed again.                                                          *)
(***************************************************************************)
InitCycle ==
    /\ drafts \in {<< DraftAtDishes >>, << DraftTwoDishes >>}
    /\ PageLoaded
    /\ nextId = Len(drafts) + 1
    /\ sendsLeft = MaxCycleSends

NextCycle ==
    \/ OpenClick \/ RetrieveResponse \/ Tick \/ CloseClick \/ SaveSucceeds

SpecCycle == InitCycle /\ [][NextCycle]_vars

\* C12: through any number of resumes and saves without edits the stored
\* draft keeps the step and the data it had when the page was loaded, and
\* every accepted resume restores that step, those fields and those dishes
C12_ResumeCycleKeepsDraft ==
    [][/\ \A i \in 1..Len(drafts') :
              /\ drafts'[i].step = loaded[1].step
              /\ drafts'[i].data = loaded[1].data
       /\ \A r \in BagToSet(net) :
              (drafts # << >> /\ RetrieveAnswered(r, FALSE, TRUE))
              => /\ currentStep' = FindIndex(loaded[1].step)
                 /\ formData' = loaded[1].data
                 /\ DishesOf(cards') = loaded[1].data.dishes]_vars

(***************************************************************************)
(* Properties of the submission.                                           *)
(***************************************************************************)
(* The submission scenario: with no draft stored the user opens the flow,   *)
(* fills the steps in, walks to the confirm step and submits, while the    *)
(* timer ticks and saves succeed or fail.                                  *)
(***************************************************************************)
InitSubmit ==
    /\ drafts = << >>
    /\ PageLoaded
    /\ nextId = Len(drafts) + 1
    /\ sendsLeft = MaxSubmitSends

NextSubmit ==
    \/ OpenClick \/ RetrieveResponse
    \/ TypeName \/ AddDishClick \/ TypeDishName
    \/ NextClick \/ SkipClick \/ SubmitClick
    \/ Tick
    \/ SaveSucceeds \/ SaveFails \/ SubmitSucceeds \/ SubmitFails

SpecSubmit == InitSubmit /\ [][NextSubmit]_vars

(***************************************************************************)
\* C13: when the submission endpoint answers success (the store holding at
\* most one draft per session), the store holds no draft of the session any
\* more (none that the session saved, none with the id the client holds),
\* the timer is stopped, the client's draft id is cleared, the flow is
\* closed and the redirect is scheduled
C13_SuccessEndsSession ==
    [][\A r \in BagToSet(net) :
          (SubmitAccepted(r) /\ C6_OneDraftPerSession)
          => /\ \A i \in 1..Len(drafts') :
                    drafts'[i].owner # r.session /\ drafts'[i].id # draftId
             /\ ~autosaveOn'
             /\ draftId' = NullId
             /\ ~shown'
             /\ redirecting']_vars

\* C14: once a session was submitted with success, or its draft was
\* deleted and the session is no longer the open one, the store applies no
\* save of that session; the timer fires only while a session is open
C14_NoSaveAfterEnd ==
    [][/\ \A r \in BagToSet(net) : \A confirmed \in BOOLEAN :
              (SaveStored(r, confirmed) /\ r.session \in ended)
              => (shown /\ r.session = sessionNo)
       /\ Tick => shown]_vars

\* C15: when a submission fails, with field-keyed errors, with another
\* failure response or with a transport error, the step, the fields, the
\* dishes, the draft id and the stored drafts are what they were, an open
\* flow stays open with its timer running, the error is shown and the
\* submit button is enabled again
C15_FailureKeepsSession ==
    [][\A r \in BagToSet(net) : \A result \in SubmitFailures :
          SubmitAnswered(r, result)
          => /\ currentStep' = currentStep
             /\ navStep' = navStep
             /\ formData' = formData
             /\ cards' = cards
             /\ draftId' = draftId
             /\ drafts' = drafts
             /\ shown' = shown
             /\ autosaveOn' = autosaveOn
             /\ shown => autosaveOn'
             /\ errorShown'
             /\ ~submitDisabled']_vars

\* C15's case has happened: on the confirm step of a session with a stored
\* draft the endpoint's validation message is shown, the timer runs and the
\* submit button is enabled
C15_FailedSubmitReached ==
    /\ shown /\ currentStep = LastIndex /\ SubmitVisible
    /\ errorShown /\ errorText = RequiredMessage
    /\ ~submitDisabled
    /\ autosaveOn
    /\ draftId # NullId
    /\ \E i \in 1..Len(drafts) : drafts[i].id = draftId
    /\ \A r \in BagToSet(net) : r.type # "submit"

\* the steps that own the failing fields of a validation response
OwnerSteps(errors) == {OwnerStep(errors[i].field) : i \in 1..Len(errors)}

\* C16: what the page shows after a response with field-keyed errors tells
\* the steps that own the failing fields: two responses whose failing
\* fields belong to different steps do not leave the page in the same state
C16_ErrorTellsOwningStep ==
    [][\A r \in BagToSet(net) : \A e1, e2 \in SubmitErrors :
          (SubmitAnswered(r, Rejected(e1)) /\ SubmitAnswered(r, Rejected(e2)))
          => OwnerSteps(e1) = OwnerSteps(e2)]_vars

(***************************************************************************)
(* Properties of a failed save.                                            *)
(***************************************************************************)
\* C17: when a save of the open page fails (failure response or transport
\* error), nothing is thrown, a set dirty flag stays set, the draft id and
\* the store are unchanged, and the handler that awaited the save goes on:
\* next, back and jump move the step, a tick changes nothing, and only a
\* close may close the flow
C17_FailedSaveKeepsGoing ==
    [][\A r \in BagToSet(net) : \A confirmed \in BOOLEAN :
          (SaveRefused(r, confirmed) /\ r.live)
          => /\ ~saveDraftDone(Client, FALSE, NullId).ex
             /\ dirty => dirty'
             /\ draftId' = draftId
             /\ drafts' = drafts
             /\ r.k = "next" => currentStep' = currentStep + 1
             /\ r.k = "back" => currentStep' = currentStep - 1
             /\ r.k = "goto" => currentStep' = r.target
             /\ r.k = "tick" => UNCHANGED clientVars
             /\ (shown /\ r.k # "close") => shown']_vars

\* C17's case has happened: the first save of a fresh session, sent by the
\* next button on the first step, has failed; the flow is on the second
\* step, the flag is set, there is no draft id and no draft
C17_FailedSaveReached ==
    /\ shown /\ currentStep = 1 /\ pane = 1
    /\ formData.basicInfo.committed
    /\ dirty
    /\ draftId = NullId
    /\ drafts = << >>
    /\ net = EmptyBag
    /\ sendsLeft = MaxSends - 2

(***************************************************************************)
(* Properties of the dirty flag.                                           *)
(***************************************************************************)
\* no save of the page is awaiting its response
NoSaveInFlight == \A r \in BagToSet(net) : r.type # "save"

\* C18: while the flow is open with the dirty flag false and no save in
\* flight, the session data are the data of the stored draft with the
\* client's id, or the session holds nothing yet
C18_CleanMeansStored ==
    (shown /\ ~dirty /\ NoSaveInFlight /\ formData # EmptyFormData)
    => \E i \in 1..Len(drafts) : drafts[i].id = draftId /\ drafts[i].data = formData

(***************************************************************************)
(* Properties of the dish editor.                                          *)
(***************************************************************************)
\* the cards cs without the card at position i
WithoutCard(cs, i) == [j \in 1..(Len(cs) - 1) |-> IF j < i THEN cs[j] ELSE cs[j + 1]]

\* the name and the notes of the card are blank and it shows no image
BlankCard(c) == Trim(c.name) = "" /\ Trim(c.notes) = "" /\ c.image = NoImage

\* C21: for every card of the open dish editor, the remove handler takes a
\* blank card (no name, no notes, no image) out whatever the answer to the
\* prompt would be; for any other card (one with notes but no name too) a
\* declined prompt leaves the cards, the dishes, the flags and everything
\* else as they are, and a confirmed one takes the card out
C21_RemoveAsksForData ==
    (shown /\ pane = FindIndex("dishes"))
    => \A i \in 1..Len(cards) :
           /\ removeDish(Client, i, TRUE).cards = WithoutCard(cards, i)
           /\ IF BlankCard(cards[i])
              THEN removeDish(Client, i, FALSE).cards = WithoutCard(cards, i)
              ELSE removeDish(Client, i, FALSE) = Client

\* C21's case has happened: a card was removed, and the card that stands
\* has notes but no name
C21_NotesOnlyCardReached ==
    /\ shown /\ pane = FindIndex("dishes")
    /\ dishCounter = 2 /\ Len(cards) = 1
    /\ Trim(cards[1].name) = "" /\ Trim(cards[1].notes) # ""
    /\ formData.dishes = << >>

(***************************************************************************)
(* The payload scenario: a draft saved on the dishes step with two dishes  *)
(* is resumed, the user retypes the names of the dishes, walks on to the   *)
(* confirm step and submits.                                               *)
(***************************************************************************)
InitPayload ==
    /\ drafts = << DraftTwoDishes >>
    /\ PageLoaded
    /\ nextId = Len(drafts) + 1
    /\ sendsLeft = MaxPayloadSends

NextPayload ==
    \/ OpenClick \/ RetrieveResponse
    \/ TypeEditorDishName
    \/ NextClick \/ SaveSucceeds
    \/ SubmitClick \/ SubmitSucceeds

SpecPayload == InitPayload /\ [][NextPayload]_vars

\* some card of the editor has a name
SomeCardNamed == \E i \in 1..Len(cards) : Trim(cards[i].name) # ""

\* C22: on the dishes step the validation answers true exactly when some
\* card of the editor has a name at that moment, the dishes it leaves in the
\* session are the named cards of the editor, and no dish of a submission
\* payload is without a name
C22_NamedDishDecides ==
    /\ (shown /\ currentStep = FindIndex("dishes"))
       => /\ validateCurrentStep(Client).valid <=> SomeCardNamed
          /\ validateCurrentStep(Client).formData.dishes
                 = SelectSeq(VisibleDishes, LAMBDA d : d.name # "")
    /\ \A r \in BagToSet(net) :
           r.type = "submit"
           => \A i \in 1..Len(r.data.dishes) : r.data.dishes[i].name # ""

\* a submission is in flight whose payload holds the one named dish, while
\* the first card of the editor has no name but notes, a rating, an image
\* and a link
C22_UnnamedCardLeftOut ==
    /\ Len(cards) = 2
    /\ Trim(cards[1].name) = "" /\ cards[1].notes # "" /\ cards[1].rating = "80"
    /\ cards[1].image # NoImage /\ cards[1].links # << >>
    /\ \E r \in BagToSet(net) :
           r.type = "submit" /\ r.data.dishes = << SoupeDish >>

(***************************************************************************)
(* The reordering scenario: a draft with two dishes is resumed on the      *)
(* dishes step, a third card is added, notes and ratings are set, and the  *)
(* cards are moved and removed.                                            *)
(***************************************************************************)
InitOrder ==
    /\ drafts = << DraftTwoDishes >>
    /\ PageLoaded
    /\ nextId = Len(drafts) + 1
    /\ sendsLeft = MaxOrderSends

AddOrderDish == AddDishUpTo(MaxOrderDishes)

NextOrder ==
    \/ OpenClick \/ RetrieveResponse
    \/ AddOrderDish \/ TypeDishNotes \/ SlideDishRating \/ RemoveDishClick
    \/ MoveUpClick \/ MoveDownClick

SpecOrder == InitOrder /\ [][NextOrder]_vars

\* cs and ds are the same cards but for the cards at positions i and i + 1,
\* which have changed places
NeighboursSwapped(cs, ds, i) ==
    /\ Len(ds) = Len(cs)
    /\ ds[i] = cs[i + 1] /\ ds[i + 1] = cs[i]
    /\ \A j \in 1..Len(cs) : j \notin {i, i + 1} => ds[j] = cs[j]

\* C23: moving the first card up or the last card down changes nothing; any
\* other move makes the card and its neighbour change places and leaves
\* every card, with its identifier and its content, in the editor exactly
\* once; and moving a card up and then down gives the order back
C23_MovesSwapNeighbours ==
    (shown /\ pane = FindIndex("dishes"))
    => \A i \in 1..Len(cards) :
           /\ IF i = 1
              THEN moveDishUp(Client, i) = Client
              ELSE /\ NeighboursSwapped(cards, moveDishUp(Client, i).cards, i - 1)
                   /\ moveDishDown(moveDishUp(Client, i), i - 1).cards = cards
           /\ IF i = Len(cards)
              THEN moveDishDown(Client, i) = Client
              ELSE NeighboursSwapped(cards, moveDishDown(Client, i).cards, i)

\* three cards stand in the editor, the card added last has been moved to
\* the front, and the session's dishes follow that order
C23_LastCardMovedFirst ==
    /\ shown /\ pane = FindIndex("dishes")
    /\ Len(cards) = 3
    /\ cards[1].id = 3 /\ cards[2].id = 1 /\ cards[3].id = 2
    /\ cards[1].notes # ""
    /\ Len(formData.dishes) = 2 /\ formData.dishes[1].name = cards[2].name

(***************************************************************************)
(* The linking scenario: a draft with two dishes, one of them linked, is   *)
(* resumed on the dishes step; links are set, replaced and removed, names  *)
(* are retyped and the cards are moved.                                    *)
(***************************************************************************)
InitLinks ==
    /\ drafts = << DraftTwoDishes >>
    /\ PageLoaded
    /\ nextId = Len(drafts) + 1
    /\ sendsLeft = MaxLinkSends

LinkCatalogChosen == LinkChosenFrom(CatalogEntries)

NextLinks ==
    \/ OpenClick \/ RetrieveResponse
    \/ LinkCatalogChosen \/ LinkRemoveClick
    \/ TypeEditorDishName \/ MoveUpClick \/ MoveDownClick

SpecLinks == InitLinks /\ [][NextLinks]_vars

\* the position, among the session's dishes, of the dish of the named card
\* at position i of cs
EntryOf(cs, i) == Cardinality({j \in 1..i : Trim(cs[j].name) # ""})

\* C24: no card and no dish of the session has more than one link; setting
\* a link on a card twice leaves the card, and the session's dish of the
\* card, with the second link alone, and removing the link leaves them
\* without a link
C24_OneLinkPerDish ==
    /\ \A i \in 1..Len(cards) : Len(cards[i].links) <= 1
    /\ \A i \in 1..Len(formData.dishes) : Len(formData.dishes[i].encyclopedia_ids) <= 1
    /\ (shown /\ pane = FindIndex("dishes"))
       => \A i \in 1..Len(cards) : \A e1, e2 \in CatalogEntries :
              LET twice == addEncyclopediaLink(addEncyclopediaLink(Client, i, e1), i, e2)
                  cleared == removeEncyclopediaLink(twice, i)
              IN  /\ twice.cards[i].links = << e2 >>
                  /\ cleared.cards[i].links = << >>
                  /\ Trim(cards[i].name) # ""
                     => /\ twice.formData.dishes[EntryOf(cards, i)].encyclopedia_ids = << e2 >>
                        /\ cleared.formData.dishes[EntryOf(cards, i)].encyclopedia_ids = << >>

\* the dish restored with a link to one entry has been linked to the other
\* entry, and the session's dish carries that link alone
C24_LinkReplaced ==
    /\ shown /\ pane = FindIndex("dishes")
    /\ Len(cards) = 2 /\ cards[1].id = 1
    /\ cards[1].links = << FlanEntry >>
    /\ Len(formData.dishes) = 2
    /\ formData.dishes[1].encyclopedia_ids = << FlanEntry >>

(***************************************************************************)
(* The basic information scenario: a client in some time zone opens the    *)
(* flow at some hour, no draft is stored; the user fills in the name, the  *)
(* visit date and the party size and goes on.                              *)
(***************************************************************************)
InitBasic ==
    /\ drafts = << >>
    /\ \E offset \in UtcOffsets : \E hour \in UtcHours : PageLoadedIn(offset, hour)
    /\ nextId = Len(drafts) + 1
    /\ sendsLeft = MaxBasicSends

NextBasic ==
    \/ OpenClick \/ RetrieveResponse
    \/ TypeName \/ TypeDate \/ TypeParty
    \/ NextClick \/ SaveSucceeds

SpecBasic == InitBasic /\ [][NextBasic]_vars

\* the day the client's clock shows and the day of the date d, counted from
\* the day in UTC the page is used on
ClientDay == (utcHour + utcOffset) \div HoursPerDay
DayOfDate(d) == CASE d = "yesterday" -> 0 - 1 [] d = "today" -> 0 [] d = "tomorrow" -> 1

\* the party size typed is a positive integer
PositiveInteger(v) == v \in {"1"}

\* C25: on the basic information step of a client whose clock shows UTC the
\* validation answers true exactly when the trimmed name is not empty, the
\* date is given and not later than the client's day, and the party size is
\* a positive integer
C25_BasicInfoValidation ==
    (shown /\ currentStep = FindIndex("basic-info") /\ utcOffset = 0)
    => (validateCurrentStep(Client).valid
        <=> /\ Trim(nameInput) # ""
            /\ dateInput # "" /\ DayOfDate(dateInput) <= ClientDay
            /\ PositiveInteger(partyInput))

\* C26: on the basic information step, with a name and a party size given,
\* goToNextStep refuses a visit date later than the client's day, showing
\* the date error and sending nothing, and goes on to save the step when
\* the visit date is the client's day, in every time zone
C26_TodayAcceptedEverywhere ==
    (/\ shown /\ currentStep = FindIndex("basic-info")
     /\ Trim(nameInput) # "" /\ PositiveInteger(partyInput) /\ dateInput # "")
    => /\ DayOfDate(dateInput) > ClientDay
          => /\ goToNextStep(Client).out = << >>
             /\ goToNextStep(Client).dateErrorShown
             /\ goToNextStep(Client).errorShown
       /\ DayOfDate(dateInput) = ClientDay
          => /\ goToNextStep(Client).out # << >>
             /\ ~goToNextStep(Client).dateErrorShown

(***************************************************************************)
(* Properties of skipping and of the summary.                              *)
(***************************************************************************)
\* C27: skipStep changes nothing on a required step; on an optional step it
\* moves the flow one step on, sends no request, and leaves the session's
\* fields and dishes, the two unsaved flags, the draft id, the inputs and
\* the cards as they are
C27_SkipCommitsNothing ==
    (shown /\ InRange(currentStep))
    => IF StepAt(currentStep).required
       THEN skipStep(Client) = Client
       ELSE /\ skipStep(Client).currentStep = currentStep + 1
            /\ skipStep(Client).pane = currentStep + 1
            /\ skipStep(Client).out = << >>
            /\ skipStep(Client).formData = formData
            /\ skipStep(Client).dirty = dirty
            /\ skipStep(Client).hasUnsavedChanges = hasUnsavedChanges
            /\ skipStep(Client).draftId = draftId
            /\ skipStep(Client).cards = cards
            /\ skipStep(Client).nameInput = nameInput

\* no draft was stored when the page was loaded; the basic information was
\* committed and saved, the location step was skipped: the flow shows the
\* rating step, the location is uncommitted, and the draft in the store is
\* the one saved on the basic information step
C27_LocationSkipped ==
    /\ loaded = << >>
    /\ shown /\ currentStep = FindIndex("rating") /\ pane = FindIndex("rating")
    /\ formData.basicInfo.committed /\ ~formData.location.committed
    /\ ~dirty
    /\ Len(drafts) = 1 /\ drafts[1].step = "basic-info"

(***************************************************************************)
(* The confirm scenario: a draft saved on the dishes step or on the        *)
(* confirm step is resumed; the user goes back and forth, retypes the      *)
(* names of the dishes, and submits.                                       *)
(***************************************************************************)
InitConfirm ==
    /\ drafts \in {<< DraftAtDishes >>, << DraftAtConfirm >>}
    /\ PageLoaded
    /\ nextId = Len(drafts) + 1
    /\ sendsLeft = MaxConfirmSends

NextConfirm ==
    \/ OpenClick \/ RetrieveResponse
    \/ TypeDishName
    \/ NextClick \/ BackClick \/ EditClick \/ SaveSucceeds
    \/ SubmitClick \/ SubmitFails

SpecConfirm == InitConfirm /\ [][NextConfirm]_vars

\* C28: while the flow shows the confirm step, the summary shows the
\* session's fields and dishes as they are committed
C28_SummaryAtConfirm ==
    (shown /\ currentStep = FindIndex("confirm") /\ pane = FindIndex("confirm"))
    => summary = << formData >>

(***************************************************************************)
(* The search scenario: a draft with two dishes is resumed on the dishes   *)
(* step; the user opens the encyclopedia search from a card, types         *)
(* queries, the searches are answered or fail, an entry is picked or the   *)
(* search is left. On the page of review_dish_link.js a staff user creates *)
(* an entry for an unlinked dish.                                          *)
(***************************************************************************)
InitSearch ==
    /\ drafts = << DraftTwoDishes >>
    /\ PageLoaded
    /\ nextId = Len(drafts) + 1
    /\ sendsLeft = MaxSearchSends

NextSearch ==
    \/ OpenClick \/ RetrieveResponse
    \/ OpenSearchClick \/ SearchType \/ SearchTimerFires
    \/ SearchSucceeds \/ SearchFails
    \/ ResultClick \/ SearchEscape

SpecSearch == InitSearch /\ [][NextSearch]_vars

NextSubflow ==
    \/ NextSearch
    \/ BadgeClick \/ ShowCreateFormClick \/ BackToSearchClick \/ SaveAndLinkClick
    \/ CreateSucceeds \/ CreateFails

SpecSubflow == InitSearch /\ [][NextSubflow]_vars

\* no search awaits its answer and no query awaits its timer
SearchesSettled ==
    /\ searchTimeout = << >>
    /\ \A r \in BagToSet(net) : r.type # "search"

\* C29: when the searches sent have been answered, the search shows
\* entries without a message, and the field holds the query sent last, the
\* entries shown are those of that query
C29_LatestQueryShown ==
    (/\ searchShown /\ SearchesSettled
     /\ issued # << >> /\ Trim(searchInput) = issued[Len(issued)]
     /\ searchStatus = "")
    => searchResults = CatalogSearch(issued[Len(issued)])

SentNow(type) ==
    {r \in BagToSet(net') : r.type = type /\ CopiesIn(r, net') > CopiesIn(r, net)}

\* C31: the submission a step sends carries, as its dishes, the named
\* entries the editor shows when submit is invoked, in the order shown, as
\* its fields the fields the session holds at that moment, and as its draft
\* id the id the draft manager holds at that moment
C31_SubmitSendsLiveState ==
    [][\A r \in SentNow("submit") :
           /\ r.data.dishes = SelectSeq(VisibleDishes, LAMBDA d : d.name # "")
           /\ r.data.basicInfo = formData.basicInfo
           /\ r.data.location = formData.location
           /\ r.data.rating = formData.rating
           /\ r.draft_id = draftId]_vars

\* a submission is in flight for the resumed draft; it carries the two
\* dishes with the name the user gave the second one in this session
C31_EditedDishesSubmitted ==
    \E r \in BagToSet(net) :
        /\ r.type = "submit" /\ r.draft_id = DraftTwoDishes.id
        /\ r.data.basicInfo = CommittedBasic
        /\ Len(r.data.dishes) = 2
        /\ r.data.dishes[1] = RichDish
        /\ r.data.dishes[2] = [SoupeDish EXCEPT !.name = "Tarte"]

\* the fields of the step the flow is on are committed by the step taken:
\* the session holds what the inputs of that step show
FieldsCommitted ==
    LET id == StepId(currentStep) IN
    /\ id = "basic-info"
       => formData'.basicInfo =
              [committed |-> TRUE, restaurantName |-> Trim(nameInput),
               visitDate |-> Trim(dateInput), partySize |-> partyInput]
    /\ id = "location" => formData'.location.committed
    /\ id = "rating" => formData'.rating.committed

\* the step taken sends one save, of the session as the step leaves it and
\* under the id of the step the flow is on, and leaves the flow on that step
OneSaveOfCommitted ==
    /\ \E r \in SentNow("save") :
           /\ SentNow("save") = {r}
           /\ CopiesIn(r, net') = CopiesIn(r, net) + 1
           /\ r.data = formData'
           /\ r.step = StepId(currentStep)
    /\ FieldsCommitted
    /\ currentStep' = currentStep
    /\ pane' = pane

\* C32: a click on Next on a step that is valid or optional, a click on
\* Back and a click on an edit button of the summary commit the fields of
\* the current step and send one save that holds them, and leave the step
\* as it is; the step changes when that save is answered, with success or
\* without; Back and the jump do so on a step that is not valid as well
C32_NavigationCommitsSavesMoves ==
    [][/\ (NextClick /\ currentStep < LastIndex) => OneSaveOfCommitted
       /\ BackClick => OneSaveOfCommitted
       /\ EditClick => OneSaveOfCommitted
       /\ \A r \in BagToSet(net) : \A confirmed \in BOOLEAN :
              ((SaveStored(r, confirmed) \/ SaveRefused(r, confirmed)) /\ r.live)
              => /\ r.k = "next" => currentStep' = currentStep + 1
                 /\ r.k = "back" => currentStep' = currentStep - 1
                 /\ r.k = "goto" => currentStep' = r.target]_vars

(***************************************************************************)
(* Properties of the autosave timer.                                       *)
(***************************************************************************)
\* C33: while the timer runs, what its callback does at this moment: it
\* sends one save if the draft manager's flag is set, and none otherwise;
\* the save carries the id of the step the flow is on now, the session's
\* fields and dishes as they are now and the draft id as it is now; with
\* the flag not set the callback changes nothing
C33_TickSavesCurrentIfDirty ==
    autosaveOn
    => LET m == autosaveTick(Client) IN
       /\ Len(m.out) = (IF dirty THEN 1 ELSE 0)
       /\ dirty => /\ m.out[1].type = "save"
                   /\ m.out[1].step = StepAt(currentStep).id
                   /\ m.out[1].data = formData
                   /\ m.out[1].draft_id = draftId
       /\ [m EXCEPT !.out = << >>] = Client

\* C34: at most one interval of the autosave timer runs at any time; an
\* interval is started only by the step that answers the retrieval of
\* openModal, where the draft is resumed, declined or not found; and no
\* interval runs while the flow is closed, after a submission, a cancel or
\* before the flow was opened
C34_OneTimerWhileOpen ==
    [][/\ timers' <= 1
       /\ timers' > timers
          => \E r \in BagToSet(net) : \E failed, accepted \in BOOLEAN :
                 RetrieveAnswered(r, failed, accepted)
       /\ ~shown' => timers' = 0]_vars

\* the open button was clicked twice and both retrievals were answered, so
\* the timer was started twice; the flow has been closed since, nothing is
\* in flight and no interval runs
C34_ClosedAfterTwoStarts ==
    /\ sessionNo = 2
    /\ ~shown /\ ~redirecting
    /\ net = EmptyBag
    /\ timers = 0 /\ ~autosaveOn

(***************************************************************************)
(* The catalog scenario: the user works on one of the two pages. On the    *)
(* page of the review flow a draft with two dishes is resumed and the      *)
(* encyclopedia is searched from a card; on the page of                    *)
(* review_dish_link.js the badge of a dish, linked or not when the page    *)
(* loads, is clicked, the encyclopedia is searched in the link modal, the  *)
(* dish is linked to an entry listed or created, and unlinked.             *)
(***************************************************************************)
InitCatalog ==
    /\ drafts = << DraftTwoDishes >>
    /\ ReviewPageLoadedIn(0, 12)
    /\ \E entryId \in {"", TartEntry.id} : LinkPageLoadedWith(entryId)
    /\ TreePageLoaded
    /\ nextId = Len(drafts) + 1
    /\ sendsLeft = MaxSearchSends

\* nothing was done on the page of the review flow
ReviewPageUntouched == sessionNo = 0 /\ ~shown /\ net = EmptyBag

\* nothing was done on the page of review_dish_link.js
LinkPageUntouched == LinkPageLoadedWith(badgeEncyclopediaId)

NextDishLink ==
    \/ BadgeClick \/ ShowCreateFormClick \/ BackToSearchClick \/ SaveAndLinkClick
    \/ CreateSucceeds \/ CreateFails
    \/ LinkSearchType \/ LinkSearchTimerFires \/ LinkSearchAnswered
    \/ LinkResultClick \/ LinkAnswered \/ UnlinkAnswered \/ LinkModalEscape

NextCatalog ==
    \/ LinkPageUntouched /\ OpenClick
    \/ LinkPageUntouched /\ RetrieveResponse
    \/ LinkPageUntouched /\ OpenSearchClick
    \/ LinkPageUntouched /\ SearchType
    \/ LinkPageUntouched /\ SearchTimerFires
    \/ LinkPageUntouched /\ SearchSucceeds
    \/ LinkPageUntouched /\ SearchFails
    \/ LinkPageUntouched /\ ResultClick
    \/ LinkPageUntouched /\ SearchEscape
    \/ ReviewPageUntouched /\ BadgeClick
    \/ ReviewPageUntouched /\ ShowCreateFormClick
    \/ ReviewPageUntouched /\ BackToSearchClick
    \/ ReviewPageUntouched /\ SaveAndLinkClick
    \/ ReviewPageUntouched /\ CreateSucceeds
    \/ ReviewPageUntouched /\ CreateFails
    \/ ReviewPageUntouched /\ LinkSearchType
    \/ ReviewPageUntouched /\ LinkSearchTimerFires
    \/ ReviewPageUntouched /\ LinkSearchAnswered
    \/ ReviewPageUntouched /\ LinkResultClick
    \/ ReviewPageUntouched /\ LinkAnswered
    \/ ReviewPageUntouched /\ UnlinkAnswered
    \/ ReviewPageUntouched /\ LinkModalEscape

SpecCatalog == InitCatalog /\ [][NextCatalog]_vars

\* the requests of the given type that the step of review_dish_link.js sends
LinkSentNow(type) ==
    {r \in BagToSet(linkNet') :
        r.type = type /\ CopiesIn(r, linkNet') > CopiesIn(r, linkNet)}

\* the timers pending after the input v: that of v, trimmed, if it has two
\* characters or more
PendingAfter(v) == IF ShortQuery(Trim(v)) THEN << >> ELSE << Trim(v) >>

ShortQueryPrompt == "Type at least 2 characters to search"

RepeatsStoredTick(r) ==
    /\ r.type = "save" /\ r.k = "tick" /\ r.live
    /\ drafts # << >>
    /\ StoreLatest(drafts).owner = r.session
    /\ StoreLatest(drafts).step = r.step
    /\ StoreLatest(drafts).data = r.data

\* C36: saveDishes run twice leaves the session as saveDishes run once
\* leaves it, its dishes included; and when the save of an autosave tick is
\* stored that repeats the save stored last, the DraftStore is left as it
\* was
C36_SaveAndTickIdempotent ==
    [][/\ saveDishes(saveDishes(Client)) = saveDishes(Client)
       /\ \A r \in BagToSet(net) : \A confirmed \in BOOLEAN :
              (RepeatsStoredTick(r) /\ SaveStored(r, confirmed))
              => drafts' = drafts]_vars

\* the same, for the repeated saves that carry the id of the draft
C36_IdempotentWithId ==
    [][/\ saveDishes(saveDishes(Client)) = saveDishes(Client)
       /\ \A r \in BagToSet(net) : \A confirmed \in BOOLEAN :
              (RepeatsStoredTick(r) /\ r.draft_id # NullId /\ SaveStored(r, confirmed))
              => drafts' = drafts]_vars

\* a tick's save with the id of the draft awaits its response and repeats
\* the save stored last
C36_RepeatedTickWithId ==
    \E r \in BagToSet(net) : RepeatsStoredTick(r) /\ r.draft_id # NullId

(***************************************************************************)
(* Properties of concurrent submissions.                                   *)
(***************************************************************************)
\* the submissions awaiting their response
SubmitsInFlight == {r \in BagToSet(net) : r.type = "submit"}

\* C37: at most one submission awaits its response; while one does, the
\* submit button is disabled, and neither a click on it nor Ctrl+Enter
\* sends a submission; and the endpoint has created at most one review for
\* each session
C37_OneSubmissionInFlight ==
    /\ Cardinality(SubmitsInFlight) <= 1
    /\ \A r \in SubmitsInFlight : CopiesIn(r, net) = 1
    /\ SubmitsInFlight # {}
       => /\ submitDisabled
          /\ ~ENABLED SubmitClick
          /\ LET out == ctrlEnter(Client).out IN
             \A i \in 1..Len(out) : out[i].type # "submit"
    /\ \A s \in BagToSet(reviews) : CopiesIn(s, reviews) = 1

\* a submission failed and the user submitted again: the second submission
\* awaits its response on the confirm step, under the error of the first,
\* and the button is disabled
C37_SecondSubmissionPending ==
    /\ shown /\ SubmitVisible /\ submitDisabled
    /\ SubmitsInFlight # {}
    /\ errorShown
    /\ sendsLeft = 0

(***************************************************************************)
(* Properties of overlapping calls of openModal.                           *)
(***************************************************************************)
\* C38: when a retrieval is answered with a draft that the user accepts
\* while the flow is already shown (openModal was called again before an
\* earlier call had finished), the editor holds one card for each dish of
\* the draft, the session's dishes are the draft's, and one autosave timer
\* is running
C38_OverlappingOpenRestoresOnce ==
    [][\A r \in BagToSet(net) :
          (shown /\ drafts # << >> /\ RetrieveAnswered(r, FALSE, TRUE))
          => /\ Len(cards') = Len(StoreLatest(drafts).data.dishes)
             /\ DishesOf(cards') = StoreLatest(drafts).data.dishes
             /\ formData'.dishes = StoreLatest(drafts).data.dishes
             /\ timers' = 1]_vars

\* the same step leaves one autosave timer running
C38_OverlappingOpenOneTimer ==
    [][\A r \in BagToSet(net) :
          (shown /\ drafts # << >> /\ RetrieveAnswered(r, FALSE, TRUE))
          => timers' = 1 /\ autosaveOn']_vars

(***************************************************************************)
(* Properties of the badge of review_dish_link.js.                         *)
(***************************************************************************)
\* the confirmations a click on the badge asks the user: one for each
\* listener attachLinkedHandlers has added to the badge
ConfirmsAsked == badgeHandlers.unlink

\* C39: a click on the badge of an unlinked dish shows the link modal,
\* asks no confirmation and sends nothing; a click on the badge of a linked
\* dish asks one confirmation, sends at most one request, an unlink, and
\* does not show the link modal
C39_BadgeClickActsOnce ==
    [][BadgeClick
       => IF badgeEncyclopediaId = ""
          THEN /\ linkModalShown'
               /\ ConfirmsAsked = 0
               /\ linkNet' = linkNet
          ELSE /\ ~linkModalShown'
               /\ ConfirmsAsked = 1
               /\ BagCardinality(linkNet') <= BagCardinality(linkNet) + 1
               /\ \A r \in BagToSet(linkNet') :
                      CopiesIn(r, linkNet') > CopiesIn(r, linkNet) => r.type = "unlink"]_vars

\* the same for the first click on the badge, before any link or unlink
C39_FirstBadgeClickActsOnce ==
    [][(BadgeClick /\ LinkPageUntouched)
       => IF badgeEncyclopediaId = ""
          THEN /\ linkModalShown'
               /\ ConfirmsAsked = 0
               /\ linkNet' = linkNet
          ELSE /\ ~linkModalShown'
               /\ ConfirmsAsked = 1
               /\ BagCardinality(linkNet') <= BagCardinality(linkNet) + 1
               /\ \A r \in BagToSet(linkNet') :
                      CopiesIn(r, linkNet') > CopiesIn(r, linkNet) => r.type = "unlink"]_vars

(***************************************************************************)
(* The tree scenario: the page of the encyclopedia is loaded with some set *)
(* of expanded entries stored by an earlier visit, on the page of an entry *)
(* or of the whole tree; the user toggles entries, expands and collapses   *)
(* all, types into the search field of the sidebar and clears it.          *)
(***************************************************************************)
InitTree ==
    /\ drafts = << >>
    /\ ReviewPageLoadedIn(0, 12)
    /\ LinkPageLoaded
    /\ nextId = Len(drafts) + 1
    /\ sendsLeft = 0
    /\ \E stored \in SUBSET TreeEntries : \E current \in TreeEntries \cup {NoEntry} :
           tree = TreeLoaded(stored, current)

NextTree ==
    \/ TreeToggleClick \/ ExpandAllClick \/ CollapseAllClick
    \/ TreeSearchType \/ TreeSearchTimerFires \/ ClearFilterClick

SpecTree == InitTree /\ [][NextTree]_vars

\* the same scenario with the toggles and the two buttons used only while
\* no filter is active
NextTreeApart ==
    \/ ~tree.isFiltering /\ (TreeToggleClick \/ ExpandAllClick \/ CollapseAllClick)
    \/ TreeSearchType \/ TreeSearchTimerFires \/ ClearFilterClick

SpecTreeApart == InitTree /\ [][NextTreeApart]_vars

\* C40: while no filter is active, the entries displayed expanded in the
\* sidebar are the entries of TreeState.expandedEntries, and these are the
\* entries stored
C40_SidebarShowsExpandedEntries ==
    ~tree.isFiltering
    => /\ tree.sidebar = tree.expandedEntries
       /\ tree.expandedEntries = tree.storage

\* a filter was active and was cleared: no filter is active, every entry
\* is shown, and an entry is expanded
C40_FilterCleared ==
    /\ ~tree.isFiltering /\ tree.hidden = {}
    /\ tree.originalExpandedState # {}
    /\ tree.expandedEntries = {"1"}

====
